---- MODULE Spec2Model ----
(***************************************************************************)
(* Tool-call routing core of Claudine-Server: MCPDistributor (provider     *)
(* resolution, test modes, dispatch), the test-mode context variable set   *)
(* by the HTTP middleware, the InternalMCPHandler envelope, and the        *)
(* IntentDetector's date-hint extraction.                                  *)
(*                                                                         *)
(* Spec, SpecCtx and SpecTrace are the distributor and its callers; there  *)
(* the use cases behind the internal handler are the environment and       *)
(* answer as UseCaseOutcomes allows.  SpecHandler is the handler alone on  *)
(* a store of tasks, notes and persons.  SpecIntent is the IntentDetector. *)
(*                                                                         *)
(* Python values are written as follows.  None is the string None; a JSON  *)
(* value that is not a string is the string Int123; an Optional[int] is a  *)
(* sequence of length 0 or 1; a dict is a function whose DOMAIN is its key *)
(* set; an Optional[RouteTrace] is a sequence of length 0 or 1.            *)
(***************************************************************************)
EXTENDS Integers, Sequences, FiniteSets, TLC

VARIABLES
    primary_arg,        \* the primary_provider argument the distributor was constructed with
    primary_provider,   \* MCPDistributor.primary_provider
    db,                 \* MCPDistributor.db (a session, or None)
    internal_handler,   \* MCPDistributor._internal_handler: the session the handler is bound to, or None
    ctx,                \* test_mode_var: the value of the context variable in each request's context
    hdr,                \* the X-Test-Mode header each request arrived with
    last,               \* the call that has just returned (or raised), until the caller drops it
    now,                \* IntentDetector: today's day number (day 0 is a Monday)
    user_input,         \* IntentDetector: the message, a sequence of words
    detected,           \* IntentDetector: the DetectedIntent of user_input, once detect has run
    store,              \* the tasks, notes and persons behind the InternalMCPHandler's use cases
    hlast,              \* the InternalMCPHandler.execute call that has just returned
    caller_dict,        \* the dict object the caller passed as tool_params in the call of last, as it is now
    ulast,              \* the User.create call that has just returned or raised
    tlast,              \* the get_available_tools call that has just returned
    inflight,           \* the route_and_execute calls that run at the same time, each with its position
    refresh_tokens,     \* the refresh_tokens table: one row per token ever stored
    refreshing,         \* the refresh and logout requests in progress, each with its position
    _subscribers,       \* EventBus._subscribers: event name -> list of handlers
    _event_history,     \* EventBus._event_history: the ids of the events kept, oldest first
    plast               \* the EventBus.publish call that has just returned

vars == <<primary_arg, primary_provider, db, internal_handler, ctx, hdr, last, now, user_input, detected, store, hlast, caller_dict,
         ulast, tlast, inflight, refresh_tokens, refreshing, _subscribers, _event_history, plast>>

\* the variables of the components beside the distributor, the context, the
\* IntentDetector and the handler
userVars == <<ulast>>
toolsVars == <<tlast>>
concVars == <<inflight>>
authVars == <<refresh_tokens, refreshing>>
busVars == <<_subscribers, _event_history, plast>>
extVars == <<userVars, toolsVars, concVars, authVars, busVars>>

coreVars == <<primary_arg, primary_provider, db, internal_handler, ctx, hdr, last, now, user_input, detected, store, hlast, caller_dict>>
distVars == <<primary_arg, primary_provider, db, internal_handler>>
ctxVars == <<ctx, hdr>>
intentVars == <<now, user_input, detected>>
handlerVars == <<store, hlast>>

-----------------------------------------------------------------------------
(* Bounds *)

MaxRequests == 2        \* request contexts alive at the same time
MaxWords == 2           \* words in a message given to the IntentDetector
MaxDay == 6             \* today ranges over the day numbers 0..MaxDay
MaxPersons == 1         \* persons that create_person may add to the store
MaxTokens == 3          \* rows the refresh_tokens table may hold
MaxSubscriptions == 2   \* subscriptions made on the EventBus
MaxEvents == 1002       \* events published on the EventBus

-----------------------------------------------------------------------------
(* Python values *)

None == "<None>"
Int123 == "<int 123>"
NonStrings == {None, Int123}
EmptyDict == [k \in {} |-> None]

\* bool(v) for the values used here
Truthy(v) == v \notin {None, ""}

\* d.get(k, default)
DictGet(d, k, default) == IF k \in DOMAIN d THEN d[k] ELSE default

NoInt == << >>
SomeInt(n) == << n >>

-----------------------------------------------------------------------------
(* InternalMCPHandler: the tool registry *)

TASK_TOOLS == {"create_task", "list_tasks", "complete_task", "update_task", "delete_task"}
NOTE_TOOLS == {"create_note", "list_notes", "update_note", "delete_note"}
PERSON_TOOLS == {"create_person", "list_persons"}
INBOX_TOOLS == {"list_inbox"}

\* InternalMCPHandler.get_tool_provider
get_tool_provider_without_inbox(tool_name) ==
    IF tool_name \in TASK_TOOLS THEN "internal_tasks"
    ELSE IF tool_name \in NOTE_TOOLS THEN "internal_notes"
    ELSE IF tool_name \in PERSON_TOOLS THEN "internal_persons"
    ELSE None
get_tool_provider(tool_name) ==
    IF tool_name \in TASK_TOOLS THEN "internal_tasks"
    ELSE IF tool_name \in NOTE_TOOLS THEN "internal_notes"
    ELSE IF tool_name \in PERSON_TOOLS THEN "internal_persons"
    ELSE IF tool_name \in INBOX_TOOLS THEN "internal_inbox"
    ELSE None

-----------------------------------------------------------------------------
(* MCPProvider and the distributor's tables *)

MCPProvider == {"google", "microsoft",
                "internal_tasks", "internal_notes", "internal_inbox", "internal_persons"}

MCP_SERVERS == [google |-> "http://pai-pai-google-office-1:8002",
                microsoft |-> "http://pai-pai-microsoft-office-1:8001"]

INTERNAL_PROVIDERS == {"internal_tasks", "internal_notes", "internal_inbox", "internal_persons"}

\* s.startswith("internal_"), over the strings of this model
StartsWithInternal(s) == s \in INTERNAL_PROVIDERS \cup {"internal_x"}

-----------------------------------------------------------------------------
(* app/core/test_mode_context.py and the middleware of app/main.py *)

\* ContextVar('test_mode', default=0): a request's context starts without a value
DefaultTestMode == 0

\* test_mode_var.get() in the context of request r
get_test_mode(c, r) == c[r]

\* test_mode_var.set(mode) in the context of request r: only that context changes
set_test_mode_shared(c, r, mode) == [q \in DOMAIN c |-> mode]
set_test_mode(c, r, mode) == [c EXCEPT ![r] = mode]

\* int(header): the headers of this model and what int() makes of them;
\* << >> stands for the ValueError of a header that is no number
Headers == {"absent", "0", "1", "2", "3", "abc"}
IntOfHeader(h) ==
    CASE h = "absent" -> SomeInt(0)      \* request.headers.get("x-test-mode", "0")
      [] h = "0" -> SomeInt(0)
      [] h = "1" -> SomeInt(1)
      [] h = "2" -> SomeInt(2)
      [] h = "3" -> SomeInt(3)
      [] OTHER -> NoInt

\* test_mode_middleware: the context of the request after the middleware ran.
\* The request starts from a context in which the variable has its default.
test_mode_middleware(c, r, h) ==
    LET fresh == [c EXCEPT ![r] = DefaultTestMode]
        n == IntOfHeader(h)
    IN  IF n # NoInt /\ n[1] \in {0, 1, 2}
        THEN set_test_mode(fresh, r, n[1])
        ELSE fresh

-----------------------------------------------------------------------------
(* InternalMCPHandler.execute *)

\* UUID(s) succeeds on these strings and raises ValueError on every other
ValidUUIDs == {"11111111-1111-1111-1111-111111111111",
               "22222222-2222-2222-2222-222222222222",
               "33333333-3333-3333-3333-333333333333",
               "44444444-4444-4444-4444-444444444444",
               "55555555-5555-5555-5555-555555555555"}
UUIDError == "badly formed hexadecimal UUID string"

\* What the use cases behind the handler do in one call: the lookup by task
\* number returns a task (here: its id) or None; the operation returns an
\* entity, returns nothing (None / False), or raises.
FoundTaskId == "22222222-2222-2222-2222-222222222222"
UseCaseOutcomes == [lookup : {None, FoundTaskId}, op : {"ok", "none", "raise"}]
UseCaseError == "use case failed"

\* A handler either returns an envelope or raises; calls are the calls it
\* made to the creating, updating and deleting use cases, in order
Returns(v) == [exc |-> None, val |-> v, calls |-> << >>]
Raises(msg) == [exc |-> msg, val |-> EmptyDict, calls |-> << >>]
UseCaseCall(use_case, id, arg) == [use_case |-> use_case, id |-> id, arg |-> arg]
AfterCalls(calls, res) == [res EXCEPT !.calls = calls \o @]

Ok(data) == [success |-> TRUE, data |-> data]
Err(msg) == [success |-> FALSE, error |-> msg]

\* _create_task, _create_note, _create_person: the entity's fields are read
_create(uc, use_case) ==
    AfterCalls(<< UseCaseCall(use_case, None, None) >>,
               CASE uc.op = "raise" -> Raises(UseCaseError)
                 [] uc.op = "none" -> Raises("'NoneType' object is not subscriptable")
                 [] OTHER -> Returns(Ok("{created}")))

\* _list_tasks, _list_notes, _list_persons, _list_inbox
_list(uc) ==
    IF uc.op = "raise" THEN Raises(UseCaseError) ELSE Returns(Ok("{list}"))

\* the common head of _complete_task, _update_task, _delete_task: task_id,
\* or the id of the task with task_number; missing when the lookup finds none
resolve_task_id_number_first(params, uc) ==
    LET task_id == DictGet(params, "task_id", None)
        task_number == DictGet(params, "task_number", None)
    IN  IF Truthy(task_number)
        THEN IF uc.lookup = None
             THEN [missing |-> TRUE, id |-> None]
             ELSE [missing |-> FALSE, id |-> uc.lookup]
        ELSE [missing |-> FALSE, id |-> task_id]
resolve_task_id(params, uc) ==
    LET task_id == DictGet(params, "task_id", None)
        task_number == DictGet(params, "task_number", None)
    IN  IF Truthy(task_number) /\ ~Truthy(task_id)
        THEN IF uc.lookup = None
             THEN [missing |-> TRUE, id |-> None]
             ELSE [missing |-> FALSE, id |-> uc.lookup]
        ELSE [missing |-> FALSE, id |-> task_id]

\* _complete_task, _update_task, _delete_task: use_cases are the use cases
\* the handler calls with the resolved id, each with its argument
_task_op(params, uc, done, use_cases) ==
    LET r == resolve_task_id(params, uc)
    IN  IF r.missing THEN Returns(Err("Taak #n niet gevonden"))
        ELSE IF ~Truthy(r.id) THEN Returns(Err("task_id of task_number is vereist"))
        ELSE IF r.id \notin ValidUUIDs THEN Raises(UUIDError)
        ELSE AfterCalls([k \in 1..Len(use_cases) |->
                            UseCaseCall(use_cases[k][1], r.id, use_cases[k][2])],
                        CASE uc.op = "raise" -> Raises(UseCaseError)
                          [] uc.op = "none" -> Returns(Err("Taak niet gevonden"))
                          [] OTHER -> Returns(Ok(done)))

\* the use cases _update_task calls: update_task_status if "status" is a key
\* of params, then update_task_fields
update_task_use_cases(params) ==
    (IF "status" \in DOMAIN params
     THEN << <<"update_task_status", params["status"]>> >> ELSE << >>)
    \o << <<"update_task_fields", None>> >>

\* _update_note, _delete_note
note_op_unchecked(params, uc, done, use_case) ==
    LET note_id == DictGet(params, "note_id", None)
    IN  IF note_id \notin ValidUUIDs THEN Raises(UUIDError)
        ELSE AfterCalls(<< UseCaseCall(use_case, note_id, None) >>,
                        CASE uc.op = "raise" -> Raises(UseCaseError)
                          [] uc.op = "none" -> Returns(Err("Notitie niet gevonden"))
                          [] OTHER -> Returns(Ok(done)))
_note_op(params, uc, done, use_case) ==
    LET note_id == DictGet(params, "note_id", None)
    IN  IF ~Truthy(note_id) THEN Returns(Err("note_id is vereist"))
        ELSE IF note_id \notin ValidUUIDs THEN Raises(UUIDError)
        ELSE AfterCalls(<< UseCaseCall(use_case, note_id, None) >>,
                        CASE uc.op = "raise" -> Raises(UseCaseError)
                          [] uc.op = "none" -> Returns(Err("Notitie niet gevonden"))
                          [] OTHER -> Returns(Ok(done)))

\* The body of the try block of InternalMCPHandler.execute
execute_body(tool_name, params, user_id, uc) ==
    IF user_id \notin ValidUUIDs THEN Raises(UUIDError)
    ELSE CASE tool_name = "create_task" -> _create(uc, "create_task")
           [] tool_name = "create_note" -> _create(uc, "create_note")
           [] tool_name = "create_person" -> _create(uc, "create_person")
           [] tool_name \in {"list_tasks", "list_notes", "list_persons", "list_inbox"} -> _list(uc)
           [] tool_name = "complete_task" ->
                _task_op(params, uc, "{completed}", << <<"update_task_status", "done">> >>)
           [] tool_name = "update_task" ->
                _task_op(params, uc, "{updated}", update_task_use_cases(params))
           [] tool_name = "delete_task" ->
                _task_op(params, uc, "{deleted}", << <<"delete_task", None>> >>)
           [] tool_name = "update_note" -> _note_op(params, uc, "{updated}", "update_note")
           [] tool_name = "delete_note" -> _note_op(params, uc, "{deleted}", "delete_note")
           [] OTHER -> Returns(Err("Unknown tool: " \o tool_name))

\* InternalMCPHandler.execute: every exception of the body is caught and
\* becomes {success: False, error: str(e)}
execute_uncaught(tool_name, params, user_id, uc) ==
    execute_body(tool_name, params, user_id, uc)
execute(tool_name, params, user_id, uc) ==
    LET body == execute_body(tool_name, params, user_id, uc)
    IN  IF body.exc # None
        THEN [exc |-> None, val |-> Err(body.exc), calls |-> body.calls]
        ELSE body

-----------------------------------------------------------------------------
(* The use cases behind the handler: tasks, notes and persons of the users *)

HandlerUsers == {"11111111-1111-1111-1111-111111111111",
                 "44444444-4444-4444-4444-444444444444"}
TaskIds == {"22222222-2222-2222-2222-222222222222", "55555555-5555-5555-5555-555555555555"}
NoteIds == {"33333333-3333-3333-3333-333333333333"}

\* the task number of a task
task_number_of(id) == IF id = "22222222-2222-2222-2222-222222222222" THEN "7" ELSE "8"

NoTask == [owner |-> None, status |-> None, edited |-> FALSE]
NoNote == [owner |-> None, edited |-> FALSE]
EmptyStore == [tasks |-> [id \in TaskIds |-> NoTask],
               notes |-> [id \in NoteIds |-> NoNote],
               persons |-> 0]

\* The stores the handler may find: every task and note absent or newly made
InitialStores ==
    [tasks : [TaskIds -> {NoTask} \cup [owner : HandlerUsers, status : {"open"}, edited : {FALSE}]],
     notes : [NoteIds -> {NoNote} \cup [owner : HandlerUsers, edited : {FALSE}]],
     persons : {0}]

\* TaskUseCases.get_task_by_number(task_number, user_id): the id of the
\* user's task with that number, or None
get_task_by_number(tasks, task_number, user_id) ==
    IF \E id \in TaskIds : tasks[id].owner = user_id /\ task_number_of(id) = task_number
    THEN CHOOSE id \in TaskIds : tasks[id].owner = user_id /\ task_number_of(id) = task_number
    ELSE None

\* whether the use case of a call finds the entity it is to act on
use_case_finds(st, call, user_id) ==
    CASE call.use_case \in {"update_task_status", "update_task_fields", "delete_task"} ->
            call.id \in TaskIds /\ st.tasks[call.id].owner = user_id
      [] call.use_case \in {"update_note", "delete_note"} ->
            call.id \in NoteIds /\ st.notes[call.id].owner = user_id
      [] OTHER -> TRUE

\* the store after one use case has done its work
apply_use_case(st, call, user_id) ==
    CASE call.use_case = "update_task_status" ->
            [st EXCEPT !.tasks[call.id].status = call.arg]
      [] call.use_case = "update_task_fields" ->
            [st EXCEPT !.tasks[call.id].edited = TRUE]
      [] call.use_case = "delete_task" ->
            [st EXCEPT !.tasks[call.id] = NoTask]
      [] call.use_case = "update_note" ->
            [st EXCEPT !.notes[call.id].edited = TRUE]
      [] call.use_case = "delete_note" ->
            [st EXCEPT !.notes[call.id] = NoNote]
      [] call.use_case = "create_task" ->
            LET id == CHOOSE t \in TaskIds : st.tasks[t] = NoTask
            IN  [st EXCEPT !.tasks[id] = [owner |-> user_id, status |-> "open", edited |-> FALSE]]
      [] call.use_case = "create_note" ->
            LET id == CHOOSE n \in NoteIds : st.notes[n] = NoNote
            IN  [st EXCEPT !.notes[id] = [owner |-> user_id, edited |-> FALSE]]
      [] call.use_case = "create_person" ->
            [st EXCEPT !.persons = @ + 1]

RECURSIVE apply_use_cases(_, _, _)
apply_use_cases(st, calls, user_id) ==
    IF calls = << >> THEN st
    ELSE apply_use_cases(apply_use_case(st, Head(calls), user_id), Tail(calls), user_id)

\* What the use cases answer to the handler on store st; fail: the database
\* raises in the operation
use_cases_on(st, tool_name, params, user_id, fail) ==
    LET lookup == get_task_by_number(st.tasks, DictGet(params, "task_number", None), user_id)
        asked == execute_body(tool_name, params, user_id, [lookup |-> lookup, op |-> "ok"]).calls
    IN  [lookup |-> lookup,
         op |-> IF fail THEN "raise"
                ELSE IF asked = << >> \/ use_case_finds(st, asked[1], user_id) THEN "ok"
                ELSE "none"]

\* InternalMCPHandler.execute on store st: what it returns or raises, the
\* use cases it called, and the store after it
handler_run(st, tool_name, params, user_id, fail) ==
    LET uc == use_cases_on(st, tool_name, params, user_id, fail)
        e == execute(tool_name, params, user_id, uc)
    IN  [raised |-> e.exc, ret |-> e.val, calls |-> e.calls,
         store |-> IF uc.op = "ok" THEN apply_use_cases(st, e.calls, user_id) ELSE st]

-----------------------------------------------------------------------------
(* MCPDistributor *)

\* MCPDistributor.__init__: self.primary_provider
init_primary_provider(primary) == IF Truthy(primary) THEN primary ELSE "microsoft"

\* _get_internal_handler: the handler is created once, bound to the session
\* self.db holds at that moment, and kept
_get_internal_handler(handler, self_db) ==
    IF handler = None /\ self_db # None THEN self_db ELSE handler

\* _determine_provider
determine_provider_explicit_first(primary, tool_name, explicit_provider, tool_params) ==
    IF Truthy(explicit_provider) THEN explicit_provider
    ELSE IF get_tool_provider(tool_name) # None THEN get_tool_provider(tool_name)
    ELSE IF "provider" \in DOMAIN tool_params /\ Truthy(tool_params["provider"])
         THEN tool_params["provider"]
    ELSE primary
determine_provider_params_first(primary, tool_name, explicit_provider, tool_params) ==
    IF get_tool_provider(tool_name) # None THEN get_tool_provider(tool_name)
    ELSE IF "provider" \in DOMAIN tool_params /\ Truthy(tool_params["provider"])
         THEN tool_params["provider"]
    ELSE IF Truthy(explicit_provider) THEN explicit_provider
    ELSE primary
_determine_provider(primary, tool_name, explicit_provider, tool_params) ==
    IF get_tool_provider(tool_name) # None THEN get_tool_provider(tool_name)
    ELSE IF Truthy(explicit_provider) THEN explicit_provider
    ELSE IF "provider" \in DOMAIN tool_params /\ Truthy(tool_params["provider"])
         THEN tool_params["provider"]
    ELSE primary

\* _detect_intent
intent_map == [create_calendar_event |-> "calendar:create",
               list_calendar_events |-> "calendar:list",
               create_reminder |-> "calendar:reminder",
               update_calendar_event |-> "calendar:update",
               delete_calendar_event |-> "calendar:delete",
               create_task |-> "task:create",
               list_tasks |-> "task:list",
               complete_task |-> "task:complete",
               update_task |-> "task:update",
               delete_task |-> "task:delete",
               create_note |-> "note:create",
               list_notes |-> "note:list",
               update_note |-> "note:update",
               delete_note |-> "note:delete",
               create_person |-> "person:create",
               list_persons |-> "person:list",
               list_inbox |-> "inbox:list"]
_detect_intent(tool_name) == DictGet(intent_map, tool_name, "unknown:" \o tool_name)

\* RouteTrace(...) as built by route_and_execute
RouteTrace(tool_name, tool_params, provider, selected_provider, test_mode) ==
    [detected_intent |-> _detect_intent(tool_name),
     detected_provider |-> provider,
     selected_mcp |-> selected_provider,
     tool_name |-> tool_name,
     tool_params |-> tool_params,
     test_mode |-> test_mode]

\* MCPExecutionResult(...); route_trace is << >> for None
MCPExecutionResult(success, data, error, route_trace, requires_confirmation) ==
    [success |-> success, data |-> data, error |-> error,
     route_trace |-> route_trace, requires_confirmation |-> requires_confirmation]

\* What the external server does with one POST: the call throws (the message
\* of a timeout is empty), or it answers with a status and a JSON body
ResponseBodies ==
    {EmptyDict,
     [success |-> TRUE, data |-> "{event}"],
     [success |-> TRUE],
     [success |-> FALSE, error |-> "calendar not connected"],
     [success |-> FALSE],
     [success |-> FALSE, data |-> "{partial}", error |-> "quota exceeded"]}
Responses ==
    {[kind |-> "throws", exc |-> "All connection attempts failed", status |-> 0, body |-> EmptyDict],
     [kind |-> "throws", exc |-> "", status |-> 0, body |-> EmptyDict],
     [kind |-> "answers", exc |-> None, status |-> 500, body |-> EmptyDict]}
    \cup {[kind |-> "answers", exc |-> None, status |-> 200, body |-> b] : b \in ResponseBodies}

\* _execute_external_mcp_tool: one POST to {MCP_SERVERS[mcp_provider]}/execute
execute_external_with_retry(mcp_provider, response) ==
    LET url == MCP_SERVERS[mcp_provider] \o "/execute"
    IN  IF response.kind = "throws"
        THEN [exc |-> response.exc, val |-> EmptyDict, handler_calls |-> 0, posts |-> << url, url >>]
        ELSE IF response.status # 200
        THEN [exc |-> "MCP returned 500", val |-> EmptyDict, handler_calls |-> 0, posts |-> << url, url >>]
        ELSE [exc |-> None, val |-> response.body, handler_calls |-> 0, posts |-> << url >>]
_execute_external_mcp_tool(mcp_provider, response) ==
    LET url == MCP_SERVERS[mcp_provider] \o "/execute"
    IN  IF response.kind = "throws"
        THEN [exc |-> response.exc, val |-> EmptyDict, handler_calls |-> 0, posts |-> << url >>]
        ELSE IF response.status # 200
        THEN [exc |-> "MCP returned 500", val |-> EmptyDict, handler_calls |-> 0, posts |-> << url >>]
        ELSE [exc |-> None, val |-> response.body, handler_calls |-> 0, posts |-> << url >>]

\* _execute_internal_tool, given the handler _get_internal_handler returned
_execute_internal_tool(handler, tool_name, tool_params, user_id, uc) ==
    IF handler = None
    THEN [exc |-> "No database session available for internal tools", val |-> EmptyDict,
          handler_calls |-> 0, posts |-> << >>]
    ELSE LET e == execute(tool_name, tool_params, user_id, uc)
         IN  [exc |-> e.exc, val |-> e.val, handler_calls |-> 1, posts |-> << >>]

\* The body of the try block of route_and_execute and of confirm_and_execute,
\* up to the value of `result`: every outcome the environment allows
Dispatch(handler, selected_provider, tool_name, tool_params, user_id) ==
    IF StartsWithInternal(selected_provider)
    THEN {_execute_internal_tool(handler, tool_name, tool_params, user_id, uc) :
            uc \in UseCaseOutcomes}
    ELSE IF selected_provider \notin MCPProvider     \* MCPProvider(selected_provider)
    THEN {[exc |-> "not a valid MCPProvider", val |-> EmptyDict,
           handler_calls |-> 0, posts |-> << >>]}
    ELSE {_execute_external_mcp_tool(selected_provider, resp) : resp \in Responses}

\* route_trace if test_mode >= 1 else None
trace_always(route_trace, test_mode) == << route_trace >>
trace_if_test_mode(route_trace, test_mode) ==
    IF test_mode >= 1 THEN << route_trace >> ELSE << >>

\* One call's outcome: what it returned or raised, the calls it made to the
\* internal handler and the POSTs it sent, and the distributor's fields after it
Outcome(raised, ret, d_calls, d_posts, new_db, new_handler, selected, mode) ==
    [raised |-> raised, ret |-> ret, handler_calls |-> d_calls, posts |-> d_posts,
     db |-> new_db, handler |-> new_handler, selected |-> selected, test_mode |-> mode]

StartswithError == "object has no attribute 'startswith'"

\* MCPDistributor.route_and_execute, called in the context of request r
route_and_execute(primary, self_db, self_handler, c, r, tool_name, tool_params, user_id, provider, test_mode_arg, db_arg) ==
    LET db1 == IF db_arg # None THEN db_arg ELSE self_db
        test_mode == IF test_mode_arg = NoInt THEN get_test_mode(c, r) ELSE test_mode_arg[1]
        selected_provider == _determine_provider(primary, tool_name, provider, tool_params)
    IN  IF selected_provider \in NonStrings
        THEN \* selected_provider.startswith raises, outside the try block
             {Outcome(StartswithError, << >>, 0, << >>, db1, self_handler,
                      selected_provider, test_mode)}
        ELSE
        LET is_internal == StartsWithInternal(selected_provider)
            route_trace == RouteTrace(tool_name, tool_params, provider,
                                      selected_provider, test_mode)
        IN  IF test_mode = 1
            THEN {Outcome(None,
                          << MCPExecutionResult(TRUE, "test_mode", None, << route_trace >>, FALSE) >>,
                          0, << >>, db1, self_handler, selected_provider, test_mode)}
            ELSE IF test_mode = 2
            THEN {Outcome(None,
                          << MCPExecutionResult(TRUE, "awaiting_confirmation", None,
                                                << route_trace >>, TRUE) >>,
                          0, << >>, db1, self_handler, selected_provider, test_mode)}
            ELSE
            LET h == IF is_internal THEN _get_internal_handler(self_handler, db1)
                     ELSE self_handler
            IN  {Outcome(None,
                         << IF d.exc = None
                            THEN MCPExecutionResult(DictGet(d.val, "success", FALSE),
                                                    DictGet(d.val, "data", None),
                                                    DictGet(d.val, "error", None),
                                                    trace_if_test_mode(route_trace, test_mode),
                                                    FALSE)
                            ELSE MCPExecutionResult(FALSE, None, d.exc,
                                                    trace_if_test_mode(route_trace, test_mode),
                                                    FALSE) >>,
                         d.handler_calls, d.posts, db1, h, selected_provider, test_mode) :
                   d \in Dispatch(h, selected_provider, tool_name, tool_params, user_id)}

\* MCPDistributor.confirm_and_execute
confirm_and_execute(primary, self_db, self_handler, tool_name, tool_params, user_id, provider, db_arg) ==
    LET db1 == IF db_arg # None THEN db_arg ELSE self_db
        selected_provider == _determine_provider(primary, tool_name, provider, tool_params)
    IN  IF selected_provider \in NonStrings
        THEN {Outcome(StartswithError, << >>, 0, << >>, db1, self_handler,
                      selected_provider, 0)}
        ELSE
        LET is_internal == StartsWithInternal(selected_provider)
            h == IF is_internal THEN _get_internal_handler(self_handler, db1)
                 ELSE self_handler
        IN  {Outcome(None,
                     << IF d.exc = None
                        THEN MCPExecutionResult(DictGet(d.val, "success", FALSE),
                                                DictGet(d.val, "data", None),
                                                DictGet(d.val, "error", None),
                                                << >>, FALSE)
                        ELSE MCPExecutionResult(FALSE, None, d.exc, << >>, FALSE) >>,
                     d.handler_calls, d.posts, db1, h, selected_provider, 0) :
               d \in Dispatch(h, selected_provider, tool_name, tool_params, user_id)}

-----------------------------------------------------------------------------
(* The callers' inputs *)

Requests == 1..MaxRequests
Sessions == {"session-1", "session-2"}
InternalTools == TASK_TOOLS \cup NOTE_TOOLS \cup PERSON_TOOLS \cup INBOX_TOOLS
ToolNames == InternalTools \cup {"create_calendar_event", "frobnicate"}
UserIds == {"11111111-1111-1111-1111-111111111111", "not-a-uuid"}
ProviderArgs == {None, "", "google", "apple", "internal_notes"}
ParamProviders == {None, "", "google", Int123}
ToolParams ==
    {EmptyDict, [task_id |-> FoundTaskId], [task_number |-> "7"],
     [note_id |-> "33333333-3333-3333-3333-333333333333"]}
    \cup {[provider |-> v] : v \in ParamProviders}
TestModeArgs == {NoInt} \cup {SomeInt(n) : n \in {-1, 0, 1, 2, 3}}
PrimaryArgs == {None, "", "google"}

NoCall == [op |-> "none"]

CallRecord(op, r, tool_name, tool_params, provider, test_mode_arg, confirms, o) ==
    [op |-> op, r |-> r, tool_name |-> tool_name, tool_params |-> tool_params,
     provider |-> provider, test_mode_arg |-> test_mode_arg, confirms_preview |-> confirms,
     primary |-> primary_provider,
     raised |-> o.raised, ret |-> o.ret, handler_calls |-> o.handler_calls,
     posts |-> o.posts, selected |-> o.selected, test_mode |-> o.test_mode]

-----------------------------------------------------------------------------
(* Actions *)

\* MCPDistributor(primary_provider=primary, db=session)
Construct(primary, session) ==
    /\ last.op = "none"
    /\ primary_arg' = primary
    /\ primary_provider' = init_primary_provider(primary)
    /\ db' = session
    /\ internal_handler' = None
    /\ UNCHANGED <<extVars, ctx, hdr, last, now, user_input, detected, store, hlast, caller_dict>>

\* A request arrives with header h and passes test_mode_middleware
Middleware(r, h) ==
    /\ last.op = "none"
    /\ hdr' = [hdr EXCEPT ![r] = h]
    /\ ctx' = test_mode_middleware(ctx, r, h)
    /\ UNCHANGED <<extVars, primary_arg, primary_provider, db, internal_handler, last, now, user_input, detected,
                   store, hlast, caller_dict>>

RouteAndExecute(r, tool_name, tool_params, user_id, provider, test_mode_arg, db_arg) ==
    /\ last.op = "none"
    /\ \E o \in route_and_execute(primary_provider, db, internal_handler, ctx, r,
                                  tool_name, tool_params, user_id, provider,
                                  test_mode_arg, db_arg) :
          /\ db' = o.db
          /\ internal_handler' = o.handler
          /\ last' = CallRecord("route", r, tool_name, tool_params, provider,
                                test_mode_arg, FALSE, o)
    /\ caller_dict' = tool_params
    /\ UNCHANGED <<extVars, primary_arg, primary_provider, ctx, hdr, now, user_input, detected, store, hlast>>

ConfirmAndExecute(r, tool_name, tool_params, user_id, provider, db_arg) ==
    /\ last.op = "none"
    /\ \E o \in confirm_and_execute(primary_provider, db, internal_handler,
                                    tool_name, tool_params, user_id, provider, db_arg) :
          /\ db' = o.db
          /\ internal_handler' = o.handler
          /\ last' = CallRecord("confirm", r, tool_name, tool_params, provider,
                                NoInt, FALSE, o)
    /\ caller_dict' = tool_params
    /\ UNCHANGED <<extVars, primary_arg, primary_provider, ctx, hdr, now, user_input, detected, store, hlast>>

\* The caller that was answered requires_confirmation=true confirms: the next
\* call is confirm_and_execute with the tool, parameters and provider it previewed
ConfirmPreviewed(r, user_id, db_arg) ==
    /\ last.op = "route"
    /\ last.ret # << >>
    /\ last.ret[1].requires_confirmation
    /\ \E o \in confirm_and_execute(primary_provider, db, internal_handler,
                                    last.tool_name, last.tool_params, user_id,
                                    last.provider, db_arg) :
          /\ db' = o.db
          /\ internal_handler' = o.handler
          /\ last' = CallRecord("confirm", r, last.tool_name, last.tool_params,
                                last.provider, NoInt, TRUE, o)
    /\ caller_dict' = last.tool_params
    /\ UNCHANGED <<extVars, primary_arg, primary_provider, ctx, hdr, now, user_input, detected, store, hlast>>

\* The caller drops the result of the call
Discard ==
    /\ last.op # "none"
    /\ last' = NoCall
    /\ caller_dict' = EmptyDict
    /\ UNCHANGED <<extVars, primary_arg, primary_provider, db, internal_handler, ctx, hdr, now, user_input, detected,
                   store, hlast>>

NoDetection == [intent_type |-> "none"]

InitDistributor ==
    /\ primary_arg = None
    /\ primary_provider = init_primary_provider(None)
    /\ db = None
    /\ internal_handler = None
    /\ last = NoCall
InitContext ==
    /\ ctx = [r \in Requests |-> DefaultTestMode]
    /\ hdr = [r \in Requests |-> "none"]
InitIntentIdle ==
    /\ now = 0
    /\ user_input = << >>
    /\ detected = NoDetection
InitHandlerIdle ==
    /\ store = EmptyStore
    /\ hlast = NoCall
InitCaller == caller_dict = EmptyDict
InitUserIdle == ulast = NoCall
InitToolsIdle == tlast = NoCall
InitConcurrentIdle == inflight = [r \in Requests |-> NoCall]
InitAuthIdle ==
    /\ refresh_tokens = << >>
    /\ refreshing = [r \in Requests |-> NoCall]
InitBus ==
    /\ _subscribers = EmptyDict
    /\ _event_history = << >>
    /\ plast = NoCall
InitExt == InitUserIdle /\ InitToolsIdle /\ InitConcurrentIdle /\ InitAuthIdle /\ InitBus

Init == InitDistributor /\ InitContext /\ InitIntentIdle /\ InitHandlerIdle /\ InitCaller /\ InitExt

\* The caller is idle: no call's result is waiting to be read
Idle == last.op = "none"

Next ==
    \/ /\ Idle
       /\ \E primary \in PrimaryArgs, session \in Sessions \cup {None} :
            Construct(primary, session)
    \/ /\ Idle
       /\ \E tool_name \in ToolNames, tool_params \in ToolParams, user_id \in UserIds,
             provider \in ProviderArgs, test_mode_arg \in TestModeArgs,
             db_arg \in Sessions \cup {None} :
               RouteAndExecute(1, tool_name, tool_params, user_id, provider,
                               test_mode_arg, db_arg)
    \/ /\ Idle
       /\ \E tool_name \in ToolNames, tool_params \in ToolParams, user_id \in UserIds,
             provider \in ProviderArgs, db_arg \in Sessions \cup {None} :
               ConfirmAndExecute(1, tool_name, tool_params, user_id, provider, db_arg)
    \/ /\ ~Idle
       /\ \E user_id \in UserIds, db_arg \in Sessions \cup {None} :
               ConfirmPreviewed(1, user_id, db_arg)
    \/ Discard

Spec == Init /\ [][Next]_vars

-----------------------------------------------------------------------------
(* IntentDetector *)

\* A message is a sequence of words (joined by blanks).  The vocabulary:
Words == {"#calendar", "#afspraak", "#agenda", "#reminder", "#herinner", "#Task", "#taak",
          "#note", "#notitie", "#taskforce", "#foo",
          "afspraak", "herinner", "wat",
          "morgen", "overmorgen", "vandaag",
          "maandag", "dinsdag", "woensdag", "donderdag", "vrijdag", "zaterdag", "zondag",
          "14:00", "9u", "google", "outlook", "ik"}

\* Longer sentences: a chat request and two commands
ScenarioMessages ==
    {<<"ik", "wil", "morgen", "om", "14:00", "een", "afspraak">>,
     <<"#Task", "Rapport", "maken", "@Maria">>,
     <<"#calendar", "lunch", "overmorgen", "14:00">>}

\* w.lower()
lower_keeps_case(w) == w
Lower(w) ==
    CASE w = "#Task" -> "#task"
      [] w = "Rapport" -> "rapport"
      [] w = "@Maria" -> "@maria"
      [] OTHER -> w

\* kw in w, for a lower-case word w of the vocabulary: the keywords of the
\* detector's tables that occur in w as a substring
SubstringsOf(w) ==
    CASE w = "overmorgen" -> {"overmorgen", "morgen"}
      [] w = "#calendar" -> {"calendar"}
      [] w = "#afspraak" -> {"afspraak"}
      [] w = "#agenda" -> {"agenda"}
      [] w = "#reminder" -> {"reminder", "remind"}
      [] w = "#herinner" -> {"herinner"}
      [] w \in {"#task", "#taak", "#note", "#notitie", "#taskforce", "force", "#foo",
                "14:00", "9u", "ik", "wil", "om", "een", "rapport", "maken", "@maria"} -> {}
      [] OTHER -> {w}

\* w.startswith(prefix), for a lower-case word w and a prefix of COMMAND_PATTERNS
StartsWith(w, prefix) == w = prefix \/ (w = "#taskforce" /\ prefix = "#task")

\* text[len(prefix):].strip(): what follows the prefix in the first word, and
\* the words after it
AfterPrefix(text, prefix) ==
    IF Lower(text[1]) = prefix THEN Tail(text)
    ELSE << "force" >> \o Tail(text)

\* kw in text.lower()
Contains(text, kw) == \E i \in 1..Len(text) : kw \in SubstringsOf(Lower(text[i]))

COMMAND_PATTERNS == << <<"#calendar", "calendar:create">>, <<"#afspraak", "calendar:create">>,
                       <<"#agenda", "calendar:list">>, <<"#reminder", "calendar:reminder">>,
                       <<"#herinner", "calendar:reminder">>, <<"#task", "task:create">>,
                       <<"#taak", "task:create">>, <<"#note", "note:create">>,
                       <<"#notitie", "note:create">> >>

PROVIDER_PATTERNS == << <<"google", {"google", "gcal", "google calendar", "google agenda"}>>,
                        <<"microsoft", {"microsoft", "outlook", "o365", "office 365", "office",
                                        "office agenda"}>> >>

CALENDAR_KEYWORDS == {"afspraak", "meeting", "vergadering", "lunch", "diner", "ontbijt",
                      "appointment", "event", "agenda", "calendar", "plannen", "inplannen",
                      "schedule", "plan", "boek", "reserveer", "book"}

REMINDER_KEYWORDS == {"herinner", "remind", "reminder", "herinnering", "onthoud",
                      "vergeet niet", "don't forget", "alert"}

LIST_WORDS == {"wat", "welke", "toon", "show", "list", "bekijk"}

\* DAYS_NL in its order; the day number of DAYS_NL[i] is i - 1
DAYS_NL == <<"maandag", "dinsdag", "woensdag", "donderdag", "vrijdag", "zaterdag", "zondag">>

\* datetime.weekday() of day number d (day 0 is a Monday)
weekday(d) == d % 7

\* _detect_provider
_detect_provider(text) ==
    IF \E kw \in PROVIDER_PATTERNS[1][2] : Contains(text, kw) THEN PROVIDER_PATTERNS[1][1]
    ELSE IF \E kw \in PROVIDER_PATTERNS[2][2] : Contains(text, kw) THEN PROVIDER_PATTERNS[2][1]
    ELSE None

\* re.search of the two time patterns in a word: HH:MM / HH.MM, and HHu / HH uur
TimePattern1(w) == IF w = "14:00" THEN "14:00" ELSE None
TimePattern2(w) == IF w = "9u" THEN "09:00" ELSE None

\* the first word of text in which a pattern matches
FirstMatch1(text) ==
    CHOOSE i \in 1..Len(text) :
        /\ TimePattern1(Lower(text[i])) # None
        /\ \A j \in 1..(i - 1) : TimePattern1(Lower(text[j])) = None
FirstMatch2(text) ==
    CHOOSE i \in 1..Len(text) :
        /\ TimePattern2(Lower(text[i])) # None
        /\ \A j \in 1..(i - 1) : TimePattern2(Lower(text[j])) = None

\* _extract_basic_params: the date part (date_hint is a day number)
days_ahead_no_wrap(day_num, today) == day_num - weekday(today)
days_ahead(day_num, today) ==
    IF day_num - weekday(today) <= 0 THEN day_num - weekday(today) + 7
    ELSE day_num - weekday(today)

date_params(text, today) ==
    IF Contains(text, "morgen")
    THEN [date_hint |-> today + 1, date_type |-> "morgen"]
    ELSE IF Contains(text, "overmorgen")
    THEN [date_hint |-> today + 2, date_type |-> "overmorgen"]
    ELSE IF Contains(text, "vandaag")
    THEN [date_hint |-> today, date_type |-> "vandaag"]
    ELSE IF \E i \in 1..7 : Contains(text, DAYS_NL[i])
    THEN LET i == CHOOSE k \in 1..7 : Contains(text, DAYS_NL[k])
                                      /\ \A j \in 1..(k - 1) : ~Contains(text, DAYS_NL[j])
         IN  [date_hint |-> today + days_ahead(i - 1, today), date_type |-> DAYS_NL[i]]
    ELSE EmptyDict

\* _extract_basic_params: the time part
time_params(text) ==
    IF \E i \in 1..Len(text) : TimePattern1(Lower(text[i])) # None
    THEN [time_hint |-> TimePattern1(Lower(text[FirstMatch1(text)]))]
    ELSE IF \E i \in 1..Len(text) : TimePattern2(Lower(text[i])) # None
    THEN [time_hint |-> TimePattern2(Lower(text[FirstMatch2(text)]))]
    ELSE EmptyDict

_extract_basic_params(text, today) == date_params(text, today) @@ time_params(text)

DetectedIntent(intent_type, confidence, source, provider, extracted_params, needs) ==
    [intent_type |-> intent_type, confidence |-> confidence, source |-> source,
     provider |-> provider, extracted_params |-> extracted_params,
     needs_claude_extraction |-> needs]

\* _detect_command_intent
_detect_command_intent(text, today) ==
    LET first == Lower(text[1])
        Matches(k) == StartsWith(first, COMMAND_PATTERNS[k][1])  \* input_lower.startswith(command)
    IN  IF ~\E k \in 1..Len(COMMAND_PATTERNS) : Matches(k)
        THEN DetectedIntent("unknown", "0.0", "command", None, EmptyDict, FALSE)
        ELSE LET k == CHOOSE n \in 1..Len(COMMAND_PATTERNS) :
                          Matches(n) /\ \A j \in 1..(n - 1) : ~Matches(j)
                 rest == AfterPrefix(text, COMMAND_PATTERNS[k][1])
             IN  DetectedIntent(COMMAND_PATTERNS[k][2], "1.0", "command",
                                _detect_provider(rest),
                                _extract_basic_params(rest, today), TRUE)

\* _detect_chat_intent
detect_chat_calendar_first(text) ==
    LET provider == _detect_provider(text)
    IN  IF \E kw \in CALENDAR_KEYWORDS : Contains(text, kw)
        THEN DetectedIntent(IF \E word \in LIST_WORDS : Contains(text, word)
                            THEN "calendar:list" ELSE "calendar:create",
                            "0.7", "chat", provider, EmptyDict, TRUE)
        ELSE IF \E kw \in REMINDER_KEYWORDS : Contains(text, kw)
        THEN DetectedIntent("calendar:reminder", "0.8", "chat", provider, EmptyDict, TRUE)
        ELSE DetectedIntent("unknown", "0.0", "chat", provider, EmptyDict, FALSE)
_detect_chat_intent(text) ==
    LET provider == _detect_provider(text)
    IN  IF \E kw \in REMINDER_KEYWORDS : Contains(text, kw)
        THEN DetectedIntent("calendar:reminder", "0.8", "chat", provider, EmptyDict, TRUE)
        ELSE IF \E kw \in CALENDAR_KEYWORDS : Contains(text, kw)
        THEN DetectedIntent(IF \E word \in LIST_WORDS : Contains(text, word)
                            THEN "calendar:list" ELSE "calendar:create",
                            "0.7", "chat", provider, EmptyDict, TRUE)
        ELSE DetectedIntent("unknown", "0.0", "chat", provider, EmptyDict, FALSE)

\* IntentDetector.detect
HashWords == {"#calendar", "#afspraak", "#agenda", "#reminder", "#herinner", "#task", "#taak",
              "#note", "#notitie", "#taskforce", "#foo"}
detect(text, today) ==
    IF Len(text) > 0 /\ Lower(text[1]) \in HashWords      \* input_lower.startswith("#")
    THEN _detect_command_intent(text, today)
    ELSE _detect_chat_intent(text)

Messages == UNION {[1..n -> Words] : n \in 0..MaxWords}

\* detect(user_input) is called
Detect ==
    /\ detected = NoDetection
    /\ detected' = detect(user_input, now)
    /\ UNCHANGED <<extVars, primary_arg, primary_provider, db, internal_handler, ctx, hdr, last,
                   now, user_input, store, hlast, caller_dict>>

\* The next message arrives on the next day
NextDay(msg) ==
    /\ detected # NoDetection
    /\ now < MaxDay
    /\ now' = now + 1
    /\ user_input' = msg
    /\ detected' = NoDetection
    /\ UNCHANGED <<extVars, primary_arg, primary_provider, db, internal_handler, ctx, hdr, last,
                   store, hlast, caller_dict>>

InitIntent ==
    /\ InitDistributor
    /\ InitContext
    /\ InitHandlerIdle
    /\ InitCaller
    /\ InitExt
    /\ now \in 0..MaxDay
    /\ user_input \in Messages \cup ScenarioMessages
    /\ detected = NoDetection

NextIntent ==
    \/ Detect
    \/ \E msg \in {<< >>, <<"#calendar", "maandag">>} : NextDay(msg)

SpecIntent == InitIntent /\ [][NextIntent]_vars

\* Requests under the middleware: the calls the conversation use cases and
\* the router make, each in the context of its own request
CtxTools == {"create_calendar_event", "create_task"}
CtxParams == {EmptyDict, [provider |-> None]}
CtxTestModeArgs == {NoInt, SomeInt(0), SomeInt(1), SomeInt(2)}

NextCtx ==
    \/ /\ Idle
       /\ \E r \in Requests, h \in Headers : Middleware(r, h)
    \/ /\ Idle
       /\ \E r \in Requests, tool_name \in CtxTools, tool_params \in CtxParams,
             provider \in {None, "google"}, test_mode_arg \in CtxTestModeArgs,
             db_arg \in {None, "session-1"} :
               RouteAndExecute(r, tool_name, tool_params,
                               "11111111-1111-1111-1111-111111111111",
                               provider, test_mode_arg, db_arg)
    \/ Discard

SpecCtx == Init /\ [][NextCtx]_vars

-----------------------------------------------------------------------------
(* InternalMCPHandler.execute on a store *)

HandlerUserIds == HandlerUsers \cup {"not-a-uuid"}
HandlerTools == InternalTools \cup {"frobnicate"}

TaskIdParams ==
    {EmptyDict} \cup {[task_id |-> v] : v \in TaskIds \cup {"", "not-a-uuid"}}
TaskNumberParams == {EmptyDict} \cup {[task_number |-> n] : n \in {"7", "8"}}
StatusParams == {EmptyDict, [status |-> "done"]}
NoteIdParams ==
    {EmptyDict} \cup {[note_id |-> v] : v \in NoteIds \cup {"44444444-4444-4444-4444-444444444444",
                                                           "not-a-uuid"}}

\* The parameters a tool is called with
HandlerParams(tool_name) ==
    CASE tool_name \in {"complete_task", "delete_task"} ->
            {a @@ b : a \in TaskIdParams, b \in TaskNumberParams}
      [] tool_name = "update_task" ->
            {a @@ b @@ c : a \in TaskIdParams, b \in TaskNumberParams, c \in StatusParams}
      [] tool_name \in {"update_note", "delete_note"} -> NoteIdParams
      [] OTHER -> {EmptyDict}

\* A create finds room in the store
HasRoom(tool_name) ==
    /\ tool_name = "create_task" => \E t \in TaskIds : store.tasks[t] = NoTask
    /\ tool_name = "create_note" => \E n \in NoteIds : store.notes[n] = NoNote
    /\ tool_name = "create_person" => store.persons < MaxPersons

\* handler.execute(tool_name, params, user_id)
Execute(tool_name, params, user_id, fail) ==
    /\ hlast.op = "none"
    /\ HasRoom(tool_name)
    /\ LET run == handler_run(store, tool_name, params, user_id, fail)
       IN  /\ store' = run.store
           /\ hlast' = [op |-> "execute", tool_name |-> tool_name, params |-> params,
                        user_id |-> user_id, fail |-> fail, before |-> store,
                        raised |-> run.raised, ret |-> run.ret, calls |-> run.calls]
    /\ UNCHANGED <<extVars, primary_arg, primary_provider, db, internal_handler, ctx, hdr, last,
                   now, user_input, detected, caller_dict>>

\* The caller of the handler drops the result
Forget ==
    /\ hlast.op # "none"
    /\ hlast' = NoCall
    /\ UNCHANGED <<extVars, primary_arg, primary_provider, db, internal_handler, ctx, hdr, last,
                   now, user_input, detected, store, caller_dict>>

InitHandler ==
    /\ InitDistributor
    /\ InitContext
    /\ InitIntentIdle
    /\ InitCaller
    /\ InitExt
    /\ store \in InitialStores
    /\ hlast = NoCall

HandlerIdle == hlast.op = "none"

NextHandler ==
    \/ /\ HandlerIdle
       /\ \E tool_name \in HandlerTools, user_id \in HandlerUserIds, fail \in BOOLEAN :
            \E params \in HandlerParams(tool_name) :
               Execute(tool_name, params, user_id, fail)
    \/ Forget

SpecHandler == InitHandler /\ [][NextHandler]_vars

-----------------------------------------------------------------------------
(* The caller keeps the dict it passed as tool_params *)

\* RouteTrace.tool_params read at a later time: the field holds the dict
\* object the caller passed (tool_params=tool_params), so it reads what that
\* object holds now
trace_tool_params(route_trace, dict_now) == dict_now

\* the caller sets a key of the dict it passed as tool_params
CallerSetsKey(k, v) ==
    /\ last.op # "none"
    /\ DictGet(caller_dict, k, None) # v
    /\ caller_dict' = [x \in DOMAIN caller_dict \cup {k} |-> IF x = k THEN v ELSE caller_dict[x]]
    /\ UNCHANGED <<extVars, primary_arg, primary_provider, db, internal_handler, ctx, hdr, last,
                   now, user_input, detected, store, hlast>>

TraceTools == {"create_calendar_event", "create_task"}
TraceParams == {EmptyDict, [title |-> "Lunch"], [provider |-> "google"]}
TraceTestModeArgs == {SomeInt(0), SomeInt(1), SomeInt(2)}
CallerKeys == {"title", "provider"}
CallerValues == {"Lunch", "Diner", "google"}

NextTrace ==
    \/ /\ Idle
       /\ \E tool_name \in TraceTools, tool_params \in TraceParams,
             provider \in {None, "google"}, test_mode_arg \in TraceTestModeArgs :
               RouteAndExecute(1, tool_name, tool_params,
                               "11111111-1111-1111-1111-111111111111",
                               provider, test_mode_arg, "session-1")
    \/ /\ ~Idle
       /\ \E k \in CallerKeys, v \in CallerValues : CallerSetsKey(k, v)
    \/ Discard

SpecTrace == Init /\ [][NextTrace]_vars

-----------------------------------------------------------------------------
(* Properties of the distributor *)

Called == last.op # "none"
Returned == Called /\ last.ret # << >>
Res == last.ret[1]
Dispatches == last.handler_calls + Len(last.posts)

\* C1: route_and_execute called with test_mode=1 returns success=true and
\* requires_confirmation=false with the route trace attached, and calls
\* neither the internal handler nor an external provider.
C1_TestMode1ReturnsPreview ==
    (last.op = "route" /\ last.test_mode_arg = SomeInt(1)) =>
        /\ Returned
        /\ Res.success
        /\ ~Res.requires_confirmation
        /\ Res.route_trace # << >>
        /\ Dispatches = 0

\* C2: route_and_execute with test_mode=2 returns requires_confirmation=true
\* with data.status "awaiting_confirmation" and dispatches nothing; the
\* confirm_and_execute that follows with the same tool and parameters
\* dispatches exactly once and returns a result without trace and without
\* requires_confirmation.
C2_PreviewThenConfirmOnce ==
    /\ (last.op = "route" /\ last.test_mode_arg = SomeInt(2)) =>
          /\ Returned
          /\ Res.requires_confirmation
          /\ Res.data = "awaiting_confirmation"
          /\ Dispatches = 0
    /\ (last.op = "confirm" /\ last.confirms_preview) =>
          /\ Returned
          /\ Dispatches = 1
          /\ Res.route_trace = << >>
          /\ ~Res.requires_confirmation

\* The internal provider the registry's four lists give a tool
ListedProvider(tool_name) ==
    CASE tool_name \in {"create_task", "list_tasks", "complete_task", "update_task",
                        "delete_task"} -> "internal_tasks"
      [] tool_name \in {"create_note", "list_notes", "update_note", "delete_note"} -> "internal_notes"
      [] tool_name \in {"create_person", "list_persons"} -> "internal_persons"
      [] tool_name \in {"list_inbox"} -> "internal_inbox"

HasParamProvider(tool_params) ==
    "provider" \in DOMAIN tool_params /\ tool_params["provider"] \notin {None, ""}
C5_NeverRaises ==
    Called =>
        /\ last.raised = None
        /\ Returned
        /\ (Dispatches = 0 /\ Res.data \notin {"test_mode", "awaiting_confirmation"}) =>
              (~Res.success /\ Res.error # None)

\* C6: every result with success=false carries a non-empty error string.
C6_FailureHasError ==
    (Returned /\ ~Res.success) => Res.error \notin {None, ""}

\* C7: in every result that is not the awaiting-confirmation preview exactly
\* one of data and error is populated: data when success=true, error when
\* success=false.
C7_ExactlyOneOfDataError ==
    (Returned /\ ~Res.requires_confirmation) =>
        /\ Res.success => (Res.data # None /\ Res.error = None)
        /\ ~Res.success => (Res.error # None /\ Res.data = None)

\* C8: route_trace is present only when the call ran with test_mode >= 1:
\* absent on every result of a test_mode=0 call and of confirm_and_execute,
\* present on every result of a test_mode=1 or test_mode=2 call.
C8_TraceOnlyInTestModes ==
    Returned =>
        /\ Res.route_trace # << >> => (last.op = "route" /\ last.test_mode >= 1)
        /\ (last.op = "route" /\ last.test_mode = 0) => Res.route_trace = << >>
        /\ last.op = "confirm" => Res.route_trace = << >>
        /\ (last.op = "route" /\ last.test_mode \in {1, 2}) => Res.route_trace # << >>

C8_Witness ==
    /\ Returned
    /\ last.op = "route"
    /\ last.test_mode = 0
    /\ Dispatches = 1
    /\ ~Res.success
    /\ Res.route_trace = << >>

\* The test mode a request's X-Test-Mode header asks for
HeaderMode(h) == CASE h = "1" -> 1 [] h = "2" -> 2 [] OTHER -> 0

\* The test mode of the call in last: its argument, or without one the mode
\* of the request it runs in
OwnMode ==
    IF last.test_mode_arg # NoInt THEN last.test_mode_arg[1] ELSE HeaderMode(hdr[last.r])

\* C9: whether a route_and_execute call dispatches depends on the test mode
\* of that call alone: it runs in its own mode, whatever mode other requests
\* or earlier calls ran in; it dispatches only in a mode other than 1 and 2,
\* and it answers with a preview only in mode 1 or 2.
C9_TestModeIsPerCall ==
    last.op = "route" =>
        /\ last.test_mode = OwnMode
        /\ Dispatches > 0 => OwnMode \notin {1, 2}
        /\ (Returned /\ Res.data \in {"test_mode", "awaiting_confirmation"}) => OwnMode \in {1, 2}
        /\ (last.tool_name = "create_calendar_event" /\ OwnMode \notin {1, 2}) =>
              Len(last.posts) = 1

C9_Witness ==
    /\ last.op = "route"
    /\ last.test_mode_arg = NoInt
    /\ hdr[last.r] = "3"
    /\ \E q \in Requests : q # last.r /\ ctx[q] = 1
    /\ Len(last.posts) = 1

-----------------------------------------------------------------------------
(* Properties of the IntentDetector *)

Detected == detected # NoDetection
WeekdayWords == {DAYS_NL[i] : i \in 1..7}
Mentions(w) == \E i \in 1..Len(user_input) : user_input[i] = w

\* C10: for every weekday name and every current day of the week, detect
\* applied to a message mentioning that weekday yields a date_hint 1 to 7
\* days after today; when today is the named weekday the hint is today + 7.
C10_WeekdayHintIsAhead ==
    \A w \in WeekdayWords :
        (Detected /\ Mentions(w)) =>
            /\ "date_hint" \in DOMAIN detected.extracted_params
            /\ detected.extracted_params["date_hint"] - now \in 1..7
            /\ (DAYS_NL[weekday(now) + 1] = w
                  => detected.extracted_params["date_hint"] = now + 7)

\* The words of the vocabulary in which a reminder keyword, a calendar keyword
\* or a list word occurs
ReminderVocabulary == {"herinner", "#herinner", "#reminder"}
CalendarVocabulary == {"afspraak", "lunch", "#afspraak", "#agenda", "#calendar"}
ListVocabulary == {"wat"}
MentionsAny(S) == \E i \in 1..Len(user_input) : user_input[i] \in S

\* The inputs that start with "#", and those that start with a recognised prefix
StartsWithHash == Len(user_input) > 0 /\ user_input[1] \in {w \in Words : Lower(w) \in HashWords}
RecognisedPrefixWords == {"#calendar", "#afspraak", "#agenda", "#reminder", "#herinner",
                          "#Task", "#taak", "#note", "#notitie", "#taskforce"}
StartsWithPrefix == Len(user_input) > 0 /\ user_input[1] \in RecognisedPrefixWords
PrefixIntent(w) ==
    CASE w \in {"#calendar", "#afspraak"} -> "calendar:create"
      [] w = "#agenda" -> "calendar:list"
      [] w \in {"#reminder", "#herinner"} -> "calendar:reminder"
      [] w \in {"#Task", "#taak", "#taskforce"} -> "task:create"
      [] w \in {"#note", "#notitie"} -> "note:create"

\* The text that follows the prefix of a command
TextAfterPrefix ==
    IF user_input[1] = "#taskforce" THEN << "force" >> \o Tail(user_input)
    ELSE Tail(user_input)
MentionsAfterPrefix(w) == \E i \in 1..Len(TextAfterPrefix) : TextAfterPrefix[i] = w

\* C11: for input without a command prefix that contains a calendar keyword,
\* the word "morgen" and a time HH:MM, detect returns a calendar-create
\* intent whose extracted_params hold date_hint = tomorrow and time_hint =
\* that time.
C11_ChatMorgenTimeHints ==
    (/\ Detected
     /\ ~StartsWithHash
     /\ MentionsAny(CalendarVocabulary) /\ Mentions("morgen") /\ Mentions("14:00")
     /\ ~MentionsAny(ReminderVocabulary) /\ ~MentionsAny(ListVocabulary)) =>
        /\ detected.intent_type = "calendar:create"
        /\ "date_hint" \in DOMAIN detected.extracted_params
        /\ detected.extracted_params["date_hint"] = now + 1
        /\ "time_hint" \in DOMAIN detected.extracted_params
        /\ detected.extracted_params["time_hint"] = "14:00"

\* C12: date-hint extraction resolves each relative-day word to its own
\* date: "overmorgen" to today + 2, "morgen" (without "overmorgen") to
\* today + 1, "vandaag" to today.  Stated for the text of a command, the
\* only text the hints are extracted from.
C12_RelativeDayWords ==
    (Detected /\ StartsWithPrefix) =>
        /\ MentionsAfterPrefix("overmorgen") =>
              /\ "date_hint" \in DOMAIN detected.extracted_params
              /\ detected.extracted_params["date_hint"] = now + 2
        /\ (MentionsAfterPrefix("morgen") /\ ~MentionsAfterPrefix("overmorgen")) =>
              /\ "date_hint" \in DOMAIN detected.extracted_params
              /\ detected.extracted_params["date_hint"] = now + 1
        /\ (/\ MentionsAfterPrefix("vandaag")
            /\ ~MentionsAfterPrefix("morgen") /\ ~MentionsAfterPrefix("overmorgen")) =>
              /\ "date_hint" \in DOMAIN detected.extracted_params
              /\ detected.extracted_params["date_hint"] = now

\* C13: for every input that starts, in any case, with a recognised command
\* prefix, detect returns the intent bound to that prefix with confidence
\* 1.0, source "command" and needs_claude_extraction=true, and the provider
\* and the date hints are those of the text that follows the prefix.
C13_CommandPrefixIntent ==
    (Detected /\ StartsWithPrefix) =>
        /\ detected.intent_type = PrefixIntent(user_input[1])
        /\ detected.confidence = "1.0"
        /\ detected.source = "command"
        /\ detected.needs_claude_extraction
        /\ detected.provider = _detect_provider(TextAfterPrefix)
        /\ detected.provider = (IF MentionsAfterPrefix("google") THEN "google"
                                ELSE IF MentionsAfterPrefix("outlook") THEN "microsoft"
                                ELSE None)
        /\ detected.extracted_params = _extract_basic_params(TextAfterPrefix, now)
        /\ ("time_hint" \in DOMAIN detected.extracted_params)
              <=> (MentionsAfterPrefix("14:00") \/ MentionsAfterPrefix("9u"))

C13_Witness ==
    /\ Detected
    /\ user_input = <<"#Task", "Rapport", "maken", "@Maria">>
    /\ detected.intent_type = "task:create"
    /\ detected.confidence = "1.0"
    /\ detected.provider = None
    /\ detected.needs_claude_extraction

\* The keyword priority of natural-language input
ChatKeywordPriority ==
    IF MentionsAny(ReminderVocabulary)
    THEN detected.intent_type = "calendar:reminder" /\ detected.confidence = "0.8"
    ELSE IF MentionsAny(CalendarVocabulary)
    THEN /\ detected.intent_type = (IF MentionsAny(ListVocabulary) THEN "calendar:list"
                                    ELSE "calendar:create")
         /\ detected.confidence = "0.7"
    ELSE /\ detected.intent_type = "unknown"
         /\ detected.confidence = "0.0"
         /\ ~detected.needs_claude_extraction

\* C14 as claimed: for input without a (recognised) command prefix, detect
\* applies the keyword classes in a fixed priority: reminder keywords
\* (CALENDAR_REMINDER, 0.8) before calendar keywords (CALENDAR_LIST with a
\* list word, else CALENDAR_CREATE, 0.7) before UNKNOWN (0.0, no extraction).
C14_ChatKeywordPriority ==
    (Detected /\ ~StartsWithPrefix) => ChatKeywordPriority

\* C14 as amended: the priority applies to input that does not start with
\* "#"; input that starts with "#" without a recognised prefix is UNKNOWN
\* with confidence 0.0, source "command" and no extraction, whatever
\* keywords it holds.
C14_ChatPriorityWithoutHash ==
    /\ (Detected /\ ~StartsWithHash) =>
          (ChatKeywordPriority /\ detected.source = "chat")
    /\ (Detected /\ StartsWithHash /\ ~StartsWithPrefix) =>
          /\ detected.intent_type = "unknown"
          /\ detected.confidence = "0.0"
          /\ detected.source = "command"
          /\ ~detected.needs_claude_extraction

C14_Witness ==
    /\ Detected
    /\ user_input = <<"afspraak", "herinner">>
    /\ detected.intent_type = "calendar:reminder"
    /\ detected.confidence = "0.8"

-----------------------------------------------------------------------------
(* Properties of the InternalMCPHandler *)

Executed == hlast.op = "execute"
TaskOps == {"complete_task", "update_task", "delete_task"}
NoteOps == {"update_note", "delete_note"}
GivenTaskId == DictGet(hlast.params, "task_id", None)
GivenTaskNumber == DictGet(hlast.params, "task_number", None)
GivenNoteId == DictGet(hlast.params, "note_id", None)
Given(v) == v \notin {None, ""}

\* The failure envelope {success: false, error: <message>}
FailureEnvelope ==
    /\ DOMAIN hlast.ret = {"success", "error"}
    /\ ~hlast.ret.success
    /\ hlast.ret.error # None

WithTaskIdOnly(params, t) ==
    [k \in (DOMAIN params \ {"task_number"}) \cup {"task_id"} |->
        IF k = "task_id" THEN t ELSE params[k]]
WithoutTaskNumber(params) == [k \in DOMAIN params \ {"task_number"} |-> params[k]]

\* the call in hlast and the store after it are those of the same call with params
SameAsCallWith(params) ==
    LET same == handler_run(hlast.before, hlast.tool_name, params, hlast.user_id, hlast.fail)
    IN  /\ hlast.ret = same.ret
        /\ hlast.raised = same.raised
        /\ hlast.calls = same.calls
        /\ store = same.store

\* C16: complete_task, update_task and delete_task called with only
\* task_number act on the same task, and leave the store in the same state,
\* as the call with the task_id of the user's task of that number; when both
\* are given the task_id is used.
C16_TaskNumberSameAsTaskId ==
    (Executed /\ hlast.tool_name \in TaskOps) =>
        /\ \A t \in TaskIds :
              (/\ ~Given(GivenTaskId) /\ Given(GivenTaskNumber)
               /\ hlast.before.tasks[t].owner = hlast.user_id
               /\ task_number_of(t) = GivenTaskNumber) =>
                  /\ SameAsCallWith(WithTaskIdOnly(hlast.params, t))
                  /\ \A other \in TaskIds \ {t} : store.tasks[other] = hlast.before.tasks[other]
                  /\ \A c \in 1..Len(hlast.calls) : hlast.calls[c].id = t
        /\ (Given(GivenTaskId) /\ Given(GivenTaskNumber)) =>
              /\ SameAsCallWith(WithoutTaskNumber(hlast.params))
              /\ \A c \in 1..Len(hlast.calls) : hlast.calls[c].id = GivenTaskId

C16_Witness ==
    /\ Executed
    /\ hlast.tool_name = "complete_task"
    /\ hlast.params = [task_number |-> "7"]
    /\ hlast.ret.success
    /\ hlast.before.tasks[FoundTaskId].status = "open"
    /\ store.tasks[FoundTaskId].status = "done"

\* the call in hlast lacks the identifier its tool needs
MissingIdentifier ==
    \/ /\ hlast.tool_name \in TaskOps
       /\ ~Given(GivenTaskId)
       /\ \/ ~Given(GivenTaskNumber)
          \/ ~\E t \in TaskIds : /\ hlast.before.tasks[t].owner = hlast.user_id
                                 /\ task_number_of(t) = GivenTaskNumber
    \/ /\ hlast.tool_name \in NoteOps
       /\ ~Given(GivenNoteId)

-----------------------------------------------------------------------------
(* Properties of dispatch *)

\* C18: a tool name known neither to the internal registry nor to the
\* external calendar tools, submitted through route_and_execute in
\* test_mode=0, is reported as {success: false, error: "Unknown tool: <name>"}
\* and no backend action is performed for it.
C18_UnknownToolReported ==
    (last.op = "route" /\ last.test_mode = 0 /\ last.tool_name = "frobnicate") =>
        /\ Returned
        /\ ~Res.success
        /\ Res.error = "Unknown tool: frobnicate"
        /\ last.posts = << >>

\* The calls that dispatch an external tool
DispatchesExternalTool ==
    /\ Called
    /\ (last.op = "route" /\ last.test_mode = 0) \/ last.op = "confirm"
    /\ last.tool_name \notin InternalTools
ExternalProviders == {"google", "microsoft"}

\* C19 as claimed: each dispatching call for an external tool issues exactly
\* one POST, to {base}/execute of the selected provider and to no other,
\* whether the attempt succeeds, answers non-200 or throws; with primary
\* provider "microsoft" and no explicit or parameter provider it goes to the
\* Microsoft base address.
C19_OnePostPerExternalCall ==
    DispatchesExternalTool =>
        /\ Len(last.posts) = 1
        /\ \E p \in ExternalProviders :
              p = last.selected /\ last.posts[1] = MCP_SERVERS[p] \o "/execute"

\* C19 as amended: the single POST is issued when the selected provider is
\* google or microsoft; for any other selected provider no POST is issued.
C19_OnePostWhenProviderIsExternal ==
    DispatchesExternalTool =>
        /\ \A p \in ExternalProviders :
              last.selected = p =>
                  (last.posts = << MCP_SERVERS[p] \o "/execute" >> /\ last.handler_calls = 0)
        /\ last.selected \notin ExternalProviders => last.posts = << >>
        /\ (/\ primary_arg = None
            /\ last.provider = None
            /\ ~HasParamProvider(last.tool_params)) =>
              last.posts = << "http://pai-pai-microsoft-office-1:8001/execute" >>

C19_Witness ==
    /\ DispatchesExternalTool
    /\ last.op = "confirm"
    /\ last.selected = "microsoft"
    /\ Returned
    /\ ~Res.success
    /\ Res.error = "MCP returned 500"
    /\ last.posts = << "http://pai-pai-microsoft-office-1:8001/execute" >>

\* C20: a RouteTrace is immutable once built and its tool_params is a
\* snapshot: after route_and_execute returned a result with a trace, a later
\* change by the caller to the tool_params mapping it passed in does not
\* change the trace's tool_params.
C20_TraceParamsAreSnapshot ==
    (Returned /\ Res.route_trace # << >>) =>
        trace_tool_params(Res.route_trace[1], caller_dict) = last.tool_params

-----------------------------------------------------------------------------
(* Properties of the tool registry *)

\* The four tool lists of the registry, and the names the lookup is asked about
ToolLists == {TASK_TOOLS, NOTE_TOOLS, PERSON_TOOLS, INBOX_TOOLS}
RegistryNames == ToolNames \cup DOMAIN intent_map

\* InternalMCPHandler.execute has a branch for the tool: it does not answer
\* "Unknown tool: <name>"
HasDispatchBranch(tool_name) ==
    \A uc \in UseCaseOutcomes :
        DictGet(execute(tool_name, EmptyDict, FoundTaskId, uc).val, "error", None)
            # "Unknown tool: " \o tool_name

\* C21: get_tool_provider is a total, static lookup: every internal tool name
\* is in exactly one of the four tool lists and maps to exactly one of the
\* four internal providers; every other name (calendar tools, unrecognised
\* names) maps to None; and every name that maps to an internal provider has
\* a branch in InternalMCPHandler.execute and a label in the distributor's
\* intent map. The provider looked up for the tool of a call is the same
\* whatever the distributor's state.
C21_RegistryIsTotalStaticLookup ==
    /\ \A name \in RegistryNames :
          /\ name \in InternalTools =>
                /\ Cardinality({L \in ToolLists : name \in L}) = 1
                /\ get_tool_provider(name) \in INTERNAL_PROVIDERS
          /\ name \notin InternalTools => get_tool_provider(name) = None
          /\ get_tool_provider(name) # None =>
                /\ HasDispatchBranch(name)
                /\ name \in DOMAIN intent_map
                /\ _detect_intent(name) # "unknown:" \o name
    /\ (Called /\ last.handler_calls > 0 /\ get_tool_provider(last.tool_name) # None) =>
          (Returned /\ Res.error # "Unknown tool: " \o last.tool_name)

C21_Witness ==
    /\ Returned
    /\ last.tool_name = "list_inbox"
    /\ get_tool_provider(last.tool_name) = "internal_inbox"
    /\ last.handler_calls = 1
    /\ Res.success
    /\ Res.route_trace # << >>
    /\ Res.route_trace[1].detected_intent = "inbox:list"

-----------------------------------------------------------------------------
(* app/domain/entities/user.py: User.create *)

Emails == {None, "", "invalid-email", "@", "test@example.com", " Test@Example.COM "}
FullNames == {"Test User", "  Test User "}
UserProviders == {None, "", "google", "microsoft", "local", "Google", "invalid"}
HashedPasswords == {None, "", "hashed_password_here"}

\* "@" in email, for the strings of Emails
ContainsAt(email) == email \in {"@", "test@example.com", " Test@Example.COM "}

\* s.lower().strip(), for the strings of Emails and FullNames
lower_strip(s) ==
    CASE s = " Test@Example.COM " -> "test@example.com"
      [] OTHER -> s
strip(s) ==
    CASE s = "  Test User " -> "Test User"
      [] OTHER -> s

\* str(provider) in the f-string of the error message
InvalidProviderError(provider) ==
    "Invalid provider: " \o (IF provider = None THEN "None" ELSE provider)

ValueError(msg) == [raised |-> "ValueError", msg |-> msg, user |-> << >>]
UserReturned(user) == [raised |-> None, msg |-> None, user |-> << user >>]

\* User.create(email, full_name, provider, hashed_password)
user_create_local_unchecked(email, full_name, provider, hashed_password) ==
    IF ~Truthy(email) \/ ~ContainsAt(email)
    THEN ValueError("Invalid email address")
    ELSE IF provider \notin {"google", "microsoft", "local"}
    THEN ValueError(InvalidProviderError(provider))
    ELSE IF provider \in {"google", "microsoft"} /\ Truthy(hashed_password)
    THEN ValueError("OAuth users cannot have passwords")
    ELSE UserReturned([email |-> lower_strip(email), full_name |-> strip(full_name),
                       provider |-> provider, is_active |-> TRUE,
                       hashed_password |-> hashed_password])
user_create(email, full_name, provider, hashed_password) ==
    IF ~Truthy(email) \/ ~ContainsAt(email)
    THEN ValueError("Invalid email address")
    ELSE IF provider \notin {"google", "microsoft", "local"}
    THEN ValueError(InvalidProviderError(provider))
    ELSE IF provider \in {"google", "microsoft"} /\ Truthy(hashed_password)
    THEN ValueError("OAuth users cannot have passwords")
    ELSE IF provider = "local" /\ ~Truthy(hashed_password)
    THEN ValueError("Local users must have a password")
    ELSE UserReturned([email |-> lower_strip(email), full_name |-> strip(full_name),
                       provider |-> provider, is_active |-> TRUE,
                       hashed_password |-> hashed_password])

\* A caller calls User.create and keeps what it returned or raised
UserCreate(email, full_name, provider, hashed_password) ==
    /\ ulast.op = "none"
    /\ ulast' = [op |-> "create", email |-> email, full_name |-> full_name,
                 provider |-> provider, hashed_password |-> hashed_password,
                 out |-> user_create(email, full_name, provider, hashed_password)]
    /\ UNCHANGED <<coreVars, toolsVars, concVars, authVars, busVars>>

\* The caller drops it
UserForget ==
    /\ ulast.op # "none"
    /\ ulast' = NoCall
    /\ UNCHANGED <<coreVars, toolsVars, concVars, authVars, busVars>>

UserIdle == ulast.op = "none"

NextUser ==
    \/ /\ UserIdle
       /\ \E email \in Emails, full_name \in FullNames, provider \in UserProviders,
             hashed_password \in HashedPasswords :
               UserCreate(email, full_name, provider, hashed_password)
    \/ UserForget

SpecUser == Init /\ [][NextUser]_vars

-----------------------------------------------------------------------------
(* Properties of User.create *)

UserCreated == ulast.op = "create"
RaisesValueError == ulast.out.raised = "ValueError" /\ ulast.out.user = << >>
ReturnsUser == ulast.out.raised = None /\ ulast.out.user # << >>
\* a password is a non-empty hash, as User.create itself tests it
IsPassword(hashed_password) == hashed_password \notin {None, ""}

-----------------------------------------------------------------------------
(* MCPDistributor.get_available_tools *)

\* InternalMCPHandler.get_all_tools(): the tool definitions, each tagged with
\* its provider
get_all_tools ==
    << [name |-> "create_task", provider |-> "internal_tasks"],
       [name |-> "list_tasks", provider |-> "internal_tasks"],
       [name |-> "complete_task", provider |-> "internal_tasks"],
       [name |-> "update_task", provider |-> "internal_tasks"],
       [name |-> "delete_task", provider |-> "internal_tasks"],
       [name |-> "create_note", provider |-> "internal_notes"],
       [name |-> "list_notes", provider |-> "internal_notes"],
       [name |-> "update_note", provider |-> "internal_notes"],
       [name |-> "delete_note", provider |-> "internal_notes"],
       [name |-> "create_person", provider |-> "internal_persons"],
       [name |-> "list_persons", provider |-> "internal_persons"],
       [name |-> "list_inbox", provider |-> "internal_inbox"] >>

\* What an external server answers to GET {base}/tools: the request throws,
\* or is answered with a status and a body; the body's "tools" are names
ToolsResponses ==
    {[kind |-> "throws", status |-> 0, body |-> EmptyDict],
     [kind |-> "answers", status |-> 500, body |-> EmptyDict],
     [kind |-> "answers", status |-> 200, body |-> EmptyDict],
     [kind |-> "answers", status |-> 200, body |-> [tools |-> << "create_calendar_event" >>]],
     [kind |-> "answers", status |-> 200,
      body |-> [tools |-> << "create_calendar_event", "list_calendar_events" >>]]}

\* the tools of one server's answer, each tagged with the provider queried
tools_of_response(mcp_provider, response) ==
    IF response.kind = "answers" /\ response.status = 200
    THEN LET names == DictGet(response.body, "tools", << >>)
         IN  [i \in 1..Len(names) |-> [name |-> names[i], provider |-> mcp_provider]]
    ELSE << >>

\* the external_providers list the loop runs over
external_providers(provider) ==
    IF Truthy(provider) /\ ~StartsWithInternal(provider) /\ provider \in MCPProvider
    THEN << provider >>
    ELSE << "google", "microsoft" >>

\* get_available_tools(provider), the servers answering as responses says:
\* the tools returned and the GET requests sent
get_available_tools(provider, responses) ==
    LET internal == IF provider = None THEN get_all_tools
                    ELSE IF StartsWithInternal(provider)
                    THEN SelectSeq(get_all_tools, LAMBDA t : t.provider = provider)
                    ELSE << >>
        queried == SelectSeq(external_providers(provider),
                             LAMBDA p : p \notin INTERNAL_PROVIDERS)
    IN  [tools |-> internal \o
                   (IF Len(queried) >= 1
                    THEN tools_of_response(queried[1], responses[queried[1]]) ELSE << >>) \o
                   (IF Len(queried) >= 2
                    THEN tools_of_response(queried[2], responses[queried[2]]) ELSE << >>),
         gets |-> [i \in 1..Len(queried) |-> MCP_SERVERS[queried[i]] \o "/tools"]]

ToolsProviderArgs ==
    {None, "", "google", "microsoft", "internal_tasks", "internal_inbox", "internal_x", "apple"}

\* A caller lists the tools
GetAvailableTools(provider, responses) ==
    /\ tlast.op = "none"
    /\ tlast' = [op |-> "get_available_tools", provider |-> provider,
                 responses |-> responses,
                 out |-> get_available_tools(provider, responses)]
    /\ UNCHANGED <<coreVars, userVars, concVars, authVars, busVars>>

\* and drops the list
ToolsForget ==
    /\ tlast.op # "none"
    /\ tlast' = NoCall
    /\ UNCHANGED <<coreVars, userVars, concVars, authVars, busVars>>

ToolsIdle == tlast.op = "none"

NextTools ==
    \/ /\ ToolsIdle
       /\ \E provider \in ToolsProviderArgs,
             responses \in [{"google", "microsoft"} -> ToolsResponses] :
               GetAvailableTools(provider, responses)
    \/ ToolsForget

SpecTools == Init /\ [][NextTools]_vars

-----------------------------------------------------------------------------
(* Properties of get_available_tools *)

ToolsListed == tlast.op = "get_available_tools"

\* C23: get_available_tools(provider) called with a specific provider name
\* returns only tool definitions tagged with that provider: for an internal
\* provider name no external server is queried and no google or microsoft
\* tool is returned, and for a name that is not a known provider no tool of
\* another provider is returned.
C23_OnlyToolsOfTheProviderAsked ==
    (ToolsListed /\ tlast.provider \notin {None, ""}) =>
        /\ \A i \in 1..Len(tlast.out.tools) : tlast.out.tools[i].provider = tlast.provider
        /\ StartsWithInternal(tlast.provider) => tlast.out.gets = << >>

-----------------------------------------------------------------------------
(* Calls of route_and_execute that run at the same time                     *)
(* Each request has its own MCPDistributor and its own session, as          *)
(* execute_mcp_tool makes them; the calls share the store behind the        *)
(* handler's use cases. A call is routed, then dispatched, then returns.    *)

ConcurrentTools == {"create_task", "list_tasks"}
ConcurrentParams == {EmptyDict, [title |-> "melk kopen"]}

\* db: Session = Depends(get_db): the session of request r
session_of(r) == IF r = 1 THEN "session-1" ELSE "session-2"

\* route_and_execute with test_mode=0, up to the dispatch: the distributor of
\* the request, its provider and its handler
route_in_flight(tool_name, tool_params, user_id, session, others) ==
    [op |-> "route", pc |-> "routed", tool_name |-> tool_name, tool_params |-> tool_params,
     user_id |-> user_id,
     selected |-> _determine_provider(init_primary_provider(None), tool_name, None, tool_params),
     handler |-> _get_internal_handler(None, session),
     overlaps |-> others, handler_calls |-> 0, ret |-> << >>]

\* the dispatch of call r on store st: the result, the calls made to the
\* internal handler, and the store after them
dispatch_deduplicated(st, calls, r) ==
    LET c == calls[r]
        same == {q \in DOMAIN calls :
                    /\ q # r
                    /\ calls[q].op = "route"
                    /\ calls[q].pc # "routed"
                    /\ calls[q].tool_name = c.tool_name
                    /\ calls[q].tool_params = c.tool_params
                    /\ calls[q].user_id = c.user_id}
    IN  IF same # {}
        THEN [handler_calls |-> 0, ret |-> calls[CHOOSE q \in same : TRUE].ret, store |-> st]
        ELSE LET uc == use_cases_on(st, c.tool_name, c.tool_params, c.user_id, FALSE)
                 d == _execute_internal_tool(c.handler, c.tool_name, c.tool_params, c.user_id, uc)
             IN  [handler_calls |-> d.handler_calls,
                  ret |-> << MCPExecutionResult(DictGet(d.val, "success", FALSE),
                                                DictGet(d.val, "data", None),
                                                DictGet(d.val, "error", None), << >>, FALSE) >>,
                  store |-> handler_run(st, c.tool_name, c.tool_params, c.user_id, FALSE).store]
dispatch_in_flight(st, calls, r) ==
    LET c == calls[r]
        uc == use_cases_on(st, c.tool_name, c.tool_params, c.user_id, FALSE)
        d == _execute_internal_tool(c.handler, c.tool_name, c.tool_params, c.user_id, uc)
    IN  [handler_calls |-> d.handler_calls,
         ret |-> << MCPExecutionResult(DictGet(d.val, "success", FALSE),
                                       DictGet(d.val, "data", None),
                                       DictGet(d.val, "error", None), << >>, FALSE) >>,
         store |-> handler_run(st, c.tool_name, c.tool_params, c.user_id, FALSE).store]

\* Request r calls route_and_execute: the call is routed
CallStart(r, tool_name, tool_params, user_id) ==
    /\ inflight[r].op = "none"
    /\ inflight' = [inflight EXCEPT ![r] =
          route_in_flight(tool_name, tool_params, user_id, session_of(r),
                          {q \in Requests : inflight[q].op = "route" /\ inflight[q].pc = "routed"})]
    /\ UNCHANGED <<coreVars, userVars, toolsVars, authVars, busVars>>

\* await self._execute_internal_tool(...): the handler runs the tool
CallDispatch(r) ==
    /\ inflight[r].op = "route"
    /\ inflight[r].pc = "routed"
    /\ HasRoom(inflight[r].tool_name)
    /\ LET run == dispatch_in_flight(store, inflight, r)
       IN  /\ store' = run.store
           /\ inflight' = [inflight EXCEPT ![r].pc = "dispatched",
                                           ![r].handler_calls = run.handler_calls,
                                           ![r].ret = run.ret]
    /\ UNCHANGED <<primary_arg, primary_provider, db, internal_handler, ctx, hdr, last, now,
                   user_input, detected, hlast, caller_dict,
                   userVars, toolsVars, authVars, busVars>>

\* the result is returned to the request
CallReturn(r) ==
    /\ inflight[r].op = "route"
    /\ inflight[r].pc = "dispatched"
    /\ inflight' = [inflight EXCEPT ![r].pc = "returned"]
    /\ UNCHANGED <<coreVars, userVars, toolsVars, authVars, busVars>>

NextConcurrent ==
    \/ \E r \in Requests, tool_name \in ConcurrentTools, tool_params \in ConcurrentParams,
          user_id \in HandlerUsers :
            CallStart(r, tool_name, tool_params, user_id)
    \/ \E r \in Requests : CallDispatch(r)
    \/ \E r \in Requests : CallReturn(r)

SpecConcurrent == Init /\ [][NextConcurrent]_vars

-----------------------------------------------------------------------------
(* Properties of concurrent calls *)

CreatesTask(r) == inflight[r].op = "route" /\ inflight[r].tool_name = "create_task"
HasDispatched(r) == inflight[r].op = "route" /\ inflight[r].pc \in {"dispatched", "returned"}
HasReturned(r) == inflight[r].op = "route" /\ inflight[r].pc = "returned"
TasksOf(user_id) == {t \in TaskIds : store.tasks[t].owner = user_id}
IdenticalCalls(r, q) ==
    /\ r # q
    /\ CreatesTask(r) /\ CreatesTask(q)
    /\ inflight[r].tool_params = inflight[q].tool_params
    /\ inflight[r].user_id = inflight[q].user_id

-----------------------------------------------------------------------------
(* RefreshTokenUseCase, LogoutUseCase and the RefreshTokenRepository        *)
(* A token is the number of its row in refresh_tokens (secrets.token_urlsafe *)
(* makes every token new); token 0 is a string that was never stored. Each  *)
(* repository method is one step on the table; the requests of different    *)
(* workers take their steps in any order. rotated_from is the model's note  *)
(* of the token whose refresh stored the row (0: a login).                  *)

PresentedTokens == 0..MaxTokens
UserLookups == {"active", "disabled", "missing"}

\* RefreshTokenRepository.get_by_token: the row's number, or 0 for None
get_by_token(rows, token) == IF token \in 1..Len(rows) THEN token ELSE 0

\* RefreshTokenRepository.get_valid_token: not revoked and not expired
get_valid_token(rows, token) ==
    IF token \in 1..Len(rows) /\ ~rows[token].revoked /\ ~rows[token].expired
    THEN token ELSE 0

\* RefreshTokenRepository.revoke: the table after it
revoke(rows, token) ==
    IF get_by_token(rows, token) # 0 THEN [rows EXCEPT ![token].revoked = TRUE] ELSE rows

\* RefreshTokenRepository.create: the table with the new row
create(rows, rotated_from) ==
    Append(rows, [revoked |-> FALSE, expired |-> FALSE, rotated_from |-> rotated_from])

\* rows the table still has room for, counting the refreshes that will store one
TokenRoom ==
    Len(refresh_tokens)
      + Cardinality({r \in Requests : refreshing[r].op = "refresh"
                                        /\ refreshing[r].pc \in {"validated", "revoked"}})
      < MaxTokens

\* LoginUserUseCase.execute succeeds: a token pair is made and the refresh token stored
Login ==
    /\ TokenRoom
    /\ refresh_tokens' = create(refresh_tokens, 0)
    /\ UNCHANGED <<coreVars, userVars, toolsVars, concVars, busVars, refreshing>>

\* RefreshTokenUseCase.execute(token), lines 188-201: the token and the user are looked up
RefreshValidate(r, token, user) ==
    /\ refreshing[r].op = "none"
    /\ TokenRoom
    /\ refreshing' = [refreshing EXCEPT ![r] =
          IF get_valid_token(refresh_tokens, token) = 0
          THEN [op |-> "refresh", pc |-> "returned", token |-> token,
                raised |-> "Invalid or expired refresh token", new_token |-> 0,
                revoked_before |-> get_by_token(refresh_tokens, token) # 0
                                     /\ refresh_tokens[token].revoked]
          ELSE IF user = "missing"
          THEN [op |-> "refresh", pc |-> "returned", token |-> token,
                raised |-> "User not found", new_token |-> 0, revoked_before |-> FALSE]
          ELSE IF user = "disabled"
          THEN [op |-> "refresh", pc |-> "returned", token |-> token,
                raised |-> "Account is disabled", new_token |-> 0, revoked_before |-> FALSE]
          ELSE [op |-> "refresh", pc |-> "validated", token |-> token,
                raised |-> None, new_token |-> 0, revoked_before |-> FALSE]]
    /\ UNCHANGED <<coreVars, userVars, toolsVars, concVars, busVars, refresh_tokens>>

\* line 204: refresh_repo.revoke(refresh_token)
RefreshRevoke(r) ==
    /\ refreshing[r].op = "refresh"
    /\ refreshing[r].pc = "validated"
    /\ refresh_tokens' = revoke(refresh_tokens, refreshing[r].token)
    /\ refreshing' = [refreshing EXCEPT ![r].pc = "revoked"]
    /\ UNCHANGED <<coreVars, userVars, toolsVars, concVars, busVars>>

\* lines 207-224: the new pair is made, its refresh token stored, and the pair returned
RefreshCreate(r) ==
    /\ refreshing[r].op = "refresh"
    /\ refreshing[r].pc = "revoked"
    /\ refresh_tokens' = create(refresh_tokens, refreshing[r].token)
    /\ refreshing' = [refreshing EXCEPT ![r].pc = "returned",
                                        ![r].new_token = Len(refresh_tokens) + 1]
    /\ UNCHANGED <<coreVars, userVars, toolsVars, concVars, busVars>>

\* LogoutUseCase.execute(token)
Logout(r, token) ==
    /\ refreshing[r].op = "none"
    /\ refresh_tokens' = revoke(refresh_tokens, token)
    /\ refreshing' = [refreshing EXCEPT ![r] =
          [op |-> "logout", pc |-> "returned", token |-> token,
           revoked |-> get_by_token(refresh_tokens, token) # 0]]
    /\ UNCHANGED <<coreVars, userVars, toolsVars, concVars, busVars>>

\* datetime.utcnow() passes the expires_at of a token
Expire(token) ==
    /\ token \in 1..Len(refresh_tokens)
    /\ ~refresh_tokens[token].expired
    /\ refresh_tokens' = [refresh_tokens EXCEPT ![token].expired = TRUE]
    /\ UNCHANGED <<coreVars, userVars, toolsVars, concVars, busVars, refreshing>>

\* the response of request r has been sent
AuthDone(r) ==
    /\ refreshing[r].op # "none"
    /\ refreshing[r].pc = "returned"
    /\ refreshing' = [refreshing EXCEPT ![r] = NoCall]
    /\ UNCHANGED <<coreVars, userVars, toolsVars, concVars, busVars, refresh_tokens>>

NextAuth ==
    \/ Login
    \/ \E r \in Requests, token \in PresentedTokens, user \in UserLookups :
          RefreshValidate(r, token, user)
    \/ \E r \in Requests : RefreshRevoke(r)
    \/ \E r \in Requests : RefreshCreate(r)
    \/ \E r \in Requests, token \in PresentedTokens : Logout(r, token)
    \/ \E token \in PresentedTokens : Expire(token)
    \/ \E r \in Requests : AuthDone(r)

SpecAuth == Init /\ [][NextAuth]_vars

-----------------------------------------------------------------------------
(* Properties of refresh tokens *)

StoredTokens == 1..Len(refresh_tokens)
\* the tokens a successful refresh with token t was answered with
RotationsOf(t) == {n \in StoredTokens : refresh_tokens[n].rotated_from = t}

\* C25: refresh tokens are rotated and single-use: after a refresh succeeds
\* with token T, T is revoked and every later refresh with T fails with
\* "Invalid or expired refresh token"; a token revoked by logout can never be
\* used to refresh; and of two interleaved refresh requests presenting the
\* same token T at most one obtains a new token pair.
C25_RefreshTokensAreSingleUse ==
    /\ \A t \in StoredTokens :
          /\ RotationsOf(t) # {} => refresh_tokens[t].revoked
          /\ Cardinality(RotationsOf(t)) <= 1
    /\ \A r \in Requests :
          (refreshing[r].op = "refresh" /\ refreshing[r].pc = "returned"
             /\ refreshing[r].revoked_before) =>
                /\ refreshing[r].raised = "Invalid or expired refresh token"
                /\ refreshing[r].new_token = 0

-----------------------------------------------------------------------------
(* app/infrastructure/services/event_bus.py: EventBus                       *)
(* An event is known by its id; the ids of this model are the numbers of    *)
(* publication. The handlers are subscribed before the first event is       *)
(* published.                                                               *)

\* if len(self._event_history) > 1000
HistoryLimit == 1000

EventNames == {"task.created", "note.created"}
\* the handlers: on_event completes, on_event_failing raises
Handlers == {"on_event", "on_event_failing"}
handler_raises(handler) == handler = "on_event_failing"

\* EventBus.subscribe(event_name, handler): the subscribers after it
subscribe(subscribers, event_name, handler) ==
    [n \in DOMAIN subscribers \cup {event_name} |->
        IF n = event_name
        THEN Append(DictGet(subscribers, event_name, << >>), handler)
        ELSE subscribers[n]]

\* EventBus._execute_handler: the handler is awaited; what it raises is logged
execute_handler(handler, event_id) ==
    [handler |-> handler, event_id |-> event_id, raised |-> FALSE,
     logged |-> handler_raises(handler)]

\* EventBus.publish(event): the history after it, the handlers it ran, and
\* whether it raised
publish_stopping_at_first_error(subscribers, history, event) ==
    LET appended == Append(history, event.id)
        handlers == DictGet(subscribers, event.name, << >>)
        failing == {i \in 1..Len(handlers) : handler_raises(handlers[i])}
        ran == IF failing = {} THEN Len(handlers)
               ELSE CHOOSE i \in failing : \A j \in failing : i <= j
    IN  [history |-> IF Len(appended) > HistoryLimit THEN Tail(appended) ELSE appended,
         handlers |-> handlers,
         invoked |-> [i \in 1..ran |-> execute_handler(handlers[i], event.id)],
         raised |-> failing # {}]
publish(subscribers, history, event) ==
    LET appended == Append(history, event.id)
        handlers == DictGet(subscribers, event.name, << >>)
    IN  [history |-> IF Len(appended) > HistoryLimit THEN Tail(appended) ELSE appended,
         handlers |-> handlers,
         invoked |-> [i \in 1..Len(handlers) |-> execute_handler(handlers[i], event.id)],
         raised |-> \E i \in 1..Len(handlers) :
                        execute_handler(handlers[i], event.id).raised]

\* EventBus.get_event_history(limit): self._event_history[-limit:]
get_event_history(history, limit) ==
    IF limit = 0 \/ limit >= Len(history) THEN history
    ELSE SubSeq(history, Len(history) - limit + 1, Len(history))

Subscriptions(subscribers) ==
    LET lens == [n \in EventNames |-> Len(DictGet(subscribers, n, << >>))]
    IN  lens["task.created"] + lens["note.created"]

Subscribe(event_name, handler) ==
    /\ _event_history = << >>
    /\ Subscriptions(_subscribers) < MaxSubscriptions
    /\ _subscribers' = subscribe(_subscribers, event_name, handler)
    /\ UNCHANGED <<coreVars, userVars, toolsVars, concVars, authVars, _event_history, plast>>

\* await bus.publish(Event.create(event_name, ...))
Publish(event_name) ==
    LET id == IF _event_history = << >> THEN 1
              ELSE _event_history[Len(_event_history)] + 1
        out == publish(_subscribers, _event_history, [id |-> id, name |-> event_name])
    IN  /\ id <= MaxEvents
        /\ _event_history' = out.history
        /\ plast' = [op |-> "publish", event_id |-> id, event_name |-> event_name,
                     handlers |-> out.handlers, invoked |-> out.invoked,
                     raised |-> out.raised]
        /\ UNCHANGED <<coreVars, userVars, toolsVars, concVars, authVars, _subscribers>>

NextBus ==
    \/ \E event_name \in EventNames, handler \in Handlers : Subscribe(event_name, handler)
    \/ \E event_name \in EventNames : Publish(event_name)

SpecBus == Init /\ [][NextBus]_vars

-----------------------------------------------------------------------------
(* Properties of the EventBus *)

Published == plast.op = "publish"
InvocationsOf(handler) == {i \in 1..Len(plast.invoked) : plast.invoked[i].handler = handler}
SubscriptionsOf(handler) == {i \in 1..Len(plast.handlers) : plast.handlers[i] = handler}
SubscribedHandlers == {plast.handlers[i] : i \in 1..Len(plast.handlers)}

\* every published event is in the history, which holds at most HistoryLimit
\* events: the most recently published ones, in publication order
HistoryIsTheMostRecentEvents ==
    /\ Len(_event_history) <= HistoryLimit
    /\ Published =>
          /\ Len(_event_history) =
                (IF plast.event_id <= HistoryLimit THEN plast.event_id ELSE HistoryLimit)
          /\ \A i \in 1..Len(_event_history) :
                _event_history[i] = plast.event_id - Len(_event_history) + i
          /\ get_event_history(_event_history, 1) = << plast.event_id >>
    /\ ~Published => _event_history = << >>

\* C26 as claimed: publish invokes every handler subscribed to the event's
\* name exactly once per published event, a handler that raises does not
\* prevent the other handlers from running and does not make publish raise,
\* and every published event (also one with no subscriber) is appended to
\* the history, which never holds more than 1000 events and always holds the
\* most recently published ones in publication order.
C26_EachHandlerOncePerEvent ==
    /\ Published =>
          /\ ~plast.raised
          /\ \A h \in SubscribedHandlers : Cardinality(InvocationsOf(h)) = 1
    /\ HistoryIsTheMostRecentEvents

\* C26 as amended: publish invokes a handler once for each of its
\* subscriptions to the event's name (a handler subscribed twice is invoked
\* twice), whether or not other handlers raise; publish does not raise; the
\* history is as claimed.
C26_EachSubscriptionOncePerEvent ==
    /\ Published =>
          /\ ~plast.raised
          /\ Len(plast.invoked) = Len(plast.handlers)
          /\ \A i \in 1..Len(plast.handlers) :
                /\ plast.invoked[i].handler = plast.handlers[i]
                /\ plast.invoked[i].event_id = plast.event_id
          /\ \A h \in Handlers :
                Cardinality(InvocationsOf(h)) = Cardinality(SubscriptionsOf(h))
    /\ HistoryIsTheMostRecentEvents

C26_Witness ==
    /\ Published
    /\ plast.event_id = HistoryLimit + 2
    /\ Len(_event_history) = HistoryLimit
    /\ _event_history[1] = 3
    /\ plast.handlers = << "on_event_failing", "on_event" >>
    /\ Len(plast.invoked) = 2
    /\ plast.invoked[1].logged
    /\ ~plast.invoked[2].logged
    /\ ~plast.raised

-----------------------------------------------------------------------------
(* Properties of routing: what reaches the backends *)

\* C27: a tool name that is not in the internal registry is never dispatched
\* to the internal handler: whatever explicit provider or
\* tool_params["provider"] is supplied (also one beginning with "internal_"),
\* route_and_execute and confirm_and_execute either call an external
\* provider or return a failure without calling InternalMCPHandler.execute.
C27_OnlyRegistryToolsReachTheHandler ==
    (Called /\ get_tool_provider(last.tool_name) = None) =>
        /\ last.handler_calls = 0
        /\ ((last.op = "confirm" \/ last.test_mode \notin {1, 2}) /\ Len(last.posts) = 0) =>
              (last.raised # None \/ (Returned /\ ~Res.success))

\* C28: an action previewed under test_mode=2 is executed at most once:
\* confirm_and_execute dispatches only when an earlier route_and_execute call
\* with test_mode=2 for the same tool and parameters returned
\* requires_confirmation=true and has not been confirmed yet; a
\* confirm_and_execute call with no such pending preview dispatches nothing.
C28_ConfirmNeedsPendingPreview ==
    (last.op = "confirm" /\ ~last.confirms_preview) => Dispatches = 0

\* C29: an internal tool call executes against the database session of its
\* own call: the internal handler that ran the tool is bound to the session
\* the call was given (the distributor's db after the call), also when an
\* earlier call on the same distributor was made with a different session;
\* and a distributor that has no session at all returns success=false with
\* "No database session available for internal tools" instead of raising.
C29_HandlerBoundToTheCallsSession ==
    /\ (Called /\ last.handler_calls > 0) => internal_handler = db
    /\ (/\ Called
        /\ (last.op = "confirm" \/ last.test_mode \notin {1, 2})
        /\ last.selected \notin NonStrings
        /\ StartsWithInternal(last.selected)
        /\ db = None) =>
            /\ last.raised = None
            /\ Returned
            /\ ~Res.success
            /\ Res.error = "No database session available for internal tools"

\* C30: route_and_execute dispatches to a backend only when the effective
\* test mode is 0: for every other integer test mode, also 3 or -1, no call
\* reaches the internal handler or an external provider.
C30_DispatchOnlyInTestMode0 ==
    (last.op = "route" /\ last.test_mode # 0) => Dispatches = 0

====
